---- MODULE Spec2Model ----
(***************************************************************************)
(* BankerBot: the economy registry (cogs/database.py, cogs/economy.py,     *)
(* cogs/admin.py), the UnbelievaBoat ledger client (cogs/unbelievaboat.py) *)
(* and the transfer saga (cogs/transfer.py), as a state machine.           *)
(*                                                                         *)
(* Every coroutine is cut at its awaits that touch shared state (the       *)
(* remote ledger, the SQLite tables, the view's stopped flag): one action  *)
(* is the code between two such awaits.  asyncio runs one coroutine at a   *)
(* time, so the code between two awaits is atomic.                         *)
(*                                                                         *)
(* Python floats are modelled as exact rationals <<numerator, denominator>>*)
(* in lowest terms; float rounding is not modelled.                        *)
(***************************************************************************)
EXTENDS Integers, Sequences, FiniteSets, TLC

----------------------------------------------------------------------------
(* Rational arithmetic standing for Python's float +, -, *, / and <.       *)

Abs(x) == IF x < 0 THEN -x ELSE x

RECURSIVE Gcd(_, _)
Gcd(a, b) == IF b = 0 THEN a ELSE Gcd(b, a % b)

\* The rational n/d (d # 0) in lowest terms with a positive denominator.
Rat(n, d) ==
    LET s == IF d < 0 THEN -1 ELSE 1
        g == Gcd(Abs(n), Abs(d))
    IN  <<(s * n) \div g, (s * d) \div g>>

Int2Rat(n) == <<n, 1>>
Zero == Int2Rat(0)
RAdd(a, b) == Rat(a[1] * b[2] + b[1] * a[2], a[2] * b[2])
RNeg(a) == <<-a[1], a[2]>>
RSub(a, b) == RAdd(a, RNeg(b))
RMul(a, b) == Rat(a[1] * b[1], a[2] * b[2])
RDiv(a, b) == Rat(a[1] * b[2], a[2] * b[1])
RLess(a, b) == a[1] * b[2] < b[1] * a[2]
RLeq(a, b) == a[1] * b[2] <= b[1] * a[2]

----------------------------------------------------------------------------
(* bot.config                                                              *)

MinExchangeRate == Rat(1, 100)
MaxExchangeRate == 10000
MinTransferAmount == 1
MaxTransferAmount == 1000000

\* OWNER_USER_ID: the designated owner.
Owner == "owner"

----------------------------------------------------------------------------
(* The finite world the model runs in.                                     *)

Users == {"owner", "u1", "u2"}
Guilds == {"g1", "g2"}
Wallets == {"cash", "bank"}

\* discord guild names (guild.name at the time of /economy optin).
GuildName(g) == IF g = "g1" THEN "Alpha" ELSE "Beta"

\* str.lower() on the names and the command arguments that occur.
Lower(s) ==
    CASE s = "Alpha" -> "alpha"
      [] s = "ALPHA" -> "alpha"
      [] s = "Beta"  -> "beta"
      [] s = "beta"  -> "beta"
      [] s = "Bank"  -> "bank"
      [] s = "Approved" -> "approved"
      [] OTHER       -> s

\* Arguments a user may type into /transfer.
NameArgs == {"ALPHA", "beta", "gamma"}
WalletArgs == {"cash", "Bank", "gold"}
AmountArgs == {Rat(1, 2), Int2Rat(2), Int2Rat(1000001)}
\* Status filters typed into /economy list; "" is the omitted argument.
StatusArgs == {"", "Approved", "pending", "rejected", "open"}
\* Rates typed into /economy optin.
RateArgs == {Zero, Rat(1, 200), Int2Rat(5), Int2Rat(10), Int2Rat(10001)}

\* Re-sends of one request the model counts; the count stays there.
MaxResends == 3
\* Days that pass in one run.
MaxDays == 1
\* Confirm activations delivered to one run's transfer prompts.
MaxConfirms == 2
\* /transfer prompts one user has open in one run.
MaxPrompts == 2
\* Registry commands, button presses and owner messages users send in one run.
MaxCommands == 4

VARIABLES
    economies,   \* table economies: guild_id -> row
    officers,    \* table approved_officers: set of user ids
    transfers,   \* table transfers: sequence of rows, in insertion order
    audit,       \* table audit_log: sequence of rows
    clock,       \* datetime.utcnow(), as a logical clock
    ledger,      \* the remote UnbelievaBoat balances: <<guild, user>> -> [cash, bank]
    cmd,         \* the /transfer command invocation (TransferCommands.transfer)
    views,       \* the ConfirmTransferView objects created so far
    cbs,         \* the ConfirmTransferView.confirm callbacks started so far
    approvals,   \* the ApprovalView objects posted so far
    wviews,      \* the ConfirmWithdrawView objects created so far
    tasks,       \* registry handlers suspended at an await, oldest first
    reply,       \* what the handler that finished last told its user
    issued,      \* registry commands, presses and messages sent so far
    req,         \* the _make_request call in progress (UnbelievaBoat._make_request)
    calc,        \* a conversion there and back (transfer, lines 125-128, twice)
    listing,     \* what get_all_economies returned to the last /economy list
    bcast        \* BroadcastSystem.active_tickets' one ticket and its prompt

vars == <<economies, officers, transfers, audit, clock, ledger, cmd, views, cbs,
          approvals, wviews, tasks, reply, issued, req, calc, listing, bcast>>

\* The variables of the registry side and of the transfer side.
registryVars == <<approvals, wviews, tasks, reply, issued>>
transferVars == <<cmd, views, cbs>>

----------------------------------------------------------------------------
(* Optional arguments (Optional[float], Optional[int]).                    *)

None == [some |-> FALSE, val |-> Zero]
Some(v) == [some |-> TRUE, val |-> v]

\* No user id (approved_by IS NULL; approved_by=None).
NoUser == "nobody"

----------------------------------------------------------------------------
(* cogs/database.py: the economies table.                                  *)

\* The row INSERTed by add_economy: status 'pending', approved_* NULL (0).
NewEconomyRow(g, name, rate, by, now) ==
    [guild_id |-> g, guild_name |-> name, rate_usd |-> rate,
     status |-> "pending", applied_by |-> by, applied_at |-> now,
     approved_at |-> 0, approved_by |-> NoUser]

\* add_economy without the PRIMARY KEY on guild_id: the INSERT never fails.
AddEconomyOkAlways(tbl, g) == TRUE

\* add_economy: guild_id is the PRIMARY KEY, a second INSERT raises
\* IntegrityError and the function returns False.
AddEconomyOk(tbl, g) == g \notin DOMAIN tbl
AddEconomy(tbl, g, name, rate, by, now) ==
    IF g \in DOMAIN tbl THEN tbl
    ELSE tbl @@ (g :> NewEconomyRow(g, name, rate, by, now))

\* update_economy_status: UPDATE ... WHERE guild_id = ?, whatever the row's
\* current status; no row, no change.  Always returns True.
UpdateEconomyStatus(tbl, g, status, approved_by, now) ==
    IF g \notin DOMAIN tbl THEN tbl
    ELSE IF status = "approved" /\ approved_by # NoUser
         THEN [tbl EXCEPT ![g].status = status,
                          ![g].approved_at = now,
                          ![g].approved_by = approved_by]
         ELSE [tbl EXCEPT ![g].status = status]

\* remove_economy: DELETE ... WHERE guild_id = ?.  Always returns True.
RemoveEconomy(tbl, g) == [h \in DOMAIN tbl \ {g} |-> tbl[h]]

\* ORDER BY applied_at DESC over a set of guild ids.
RECURSIVE OrderDesc(_, _)
OrderDesc(tbl, S) ==
    IF S = {} THEN <<>>
    ELSE LET g == CHOOSE x \in S : \A y \in S : tbl[y].applied_at <= tbl[x].applied_at
         IN  <<tbl[g]>> \o OrderDesc(tbl, S \ {g})

\* get_all_economies with ORDER BY applied_at ASC: the oldest application first.
GetAllEconomiesAsc(tbl, status) ==
    LET r == OrderDesc(tbl, {g \in DOMAIN tbl : status = "" \/ tbl[g].status = status})
    IN  [i \in 1..Len(r) |-> r[Len(r) + 1 - i]]

\* get_all_economies(status): status "" stands for None (no filter).
GetAllEconomies(tbl, status) ==
    OrderDesc(tbl, {g \in DOMAIN tbl : status = "" \/ tbl[g].status = status})

\* log_action: one more audit_log row.
LogAction(log, action, user, guild) ==
    Append(log, [action |-> action, user_id |-> user, guild_id |-> guild])

----------------------------------------------------------------------------
(* cogs/unbelievaboat.py: the ledger client.                               *)

\* What one call of get_user_balance / set_user_balance can come to, once
\* _make_request has returned:
\*   "ok"    status 200 with a well-formed body;
\*   "none"  _make_request returned None (404, 403, another status, a
\*           network error): the remote state is unchanged;
\*   "raise" status 200 with a body float() cannot convert: the exception
\*           leaves get_user_balance / set_user_balance.
Responses == {"ok", "none", "raise"}

\* json_data['cash'] = str(cash): the decimal text of the float, which the
\* remote reads back to the same number.
Str(x) == <<"str", x>>
ParseNumber(t) == t[2]

\* set_user_balance's json_data, and the remote PATCH applying it.
PatchBody(cash, bank) ==
    [cash |-> IF cash.some THEN Some(Str(cash.val)) ELSE [some |-> FALSE, val |-> Str(Zero)],
     bank |-> IF bank.some THEN Some(Str(bank.val)) ELSE [some |-> FALSE, val |-> Str(Zero)]]
ApplyPatch(bal, body) ==
    [cash |-> IF body.cash.some THEN ParseNumber(body.cash.val) ELSE bal.cash,
     bank |-> IF body.bank.some THEN ParseNumber(body.bank.val) ELSE bal.bank]

\* modify_user_balance without the negative-balance check.
WouldBeNegativeNever(new) == FALSE

\* modify_user_balance, between its read and its write: new = current + change.
NewBalance(current, cash_change, bank_change) ==
    [cash |-> IF cash_change.some THEN RAdd(current.cash, cash_change.val) ELSE current.cash,
     bank |-> IF bank_change.some THEN RAdd(current.bank, bank_change.val) ELSE current.bank]
\* modify_user_balance guarding the cash wallet only.
WouldBeNegativeCashOnly(new) == RLess(new.cash, Zero)
WouldBeNegative(new) == RLess(new.cash, Zero) \/ RLess(new.bank, Zero)

\* user_has_sufficient_balance, given the balance it read.
HasSufficientBalance(balance, amount, wallet_type) ==
    IF Lower(wallet_type) = "cash" THEN RLeq(amount, balance.cash)
    ELSE IF Lower(wallet_type) = "bank" THEN RLeq(amount, balance.bank)
    ELSE FALSE

----------------------------------------------------------------------------
(* cogs/unbelievaboat.py: _make_request, one step per await.               *)

\* response.status as _make_request tells them apart; "ClientError" is the
\* request raising aiohttp.ClientError instead of answering.
Statuses == {"200", "429", "404", "403", "500", "ClientError"}

\* The Retry-After header of a 429: absent, whole seconds, or an HTTP date.
RetryAfterHeaders == {"absent", "1", "date"}
DefaultRetryAfter == 60

\* int(response.headers.get('Retry-After', 60)); -1: int() raises ValueError.
RetryAfter(header) ==
    CASE header = "absent" -> DefaultRetryAfter
      [] header = "1"      -> 1
      [] OTHER             -> -1

\* No call in progress.  resends and status are history: the recursive
\* calls so far, and the status of the response received last.
IdleReq ==
    [pc |-> "idle", method |-> "", account |-> <<"g1", "u1">>,
     json_data |-> PatchBody(None, None), retry_after |-> 0, resends |-> 0,
     status |-> "", result |-> "none"]

\* _make_request(method, endpoint, json_data) is called; without a session
\* it returns None at once.
MakeRequest(method, account, json_data, session) ==
    /\ req.pc = "idle"
    /\ req' = IF session
              THEN [IdleReq EXCEPT !.pc = "delay", !.method = method,
                                   !.account = account, !.json_data = json_data]
              ELSE [IdleReq EXCEPT !.pc = "done", !.method = method,
                                   !.account = account, !.json_data = json_data,
                                   !.result = "None"]
    /\ UNCHANGED <<bcast, listing, calc, economies, officers, transfers, audit, clock, ledger, transferVars,
                   registryVars>>

\* _make_request backing off on 404 and 403 as it does on 429.
RequestResponseRetryAll(status, header) ==
    /\ req.pc = "sent"
    /\ req' = IF status = "200"
              THEN [req EXCEPT !.pc = "done", !.status = status, !.result = "data"]
              ELSE IF status \in {"429", "404", "403"} /\ RetryAfter(header) >= 0
              THEN [req EXCEPT !.pc = "backoff", !.status = status,
                               !.retry_after = RetryAfter(header)]
              ELSE [req EXCEPT !.pc = "done", !.status = status, !.result = "None"]
    /\ ledger' = IF status = "200" /\ req.method = "PATCH"
                 THEN [ledger EXCEPT ![req.account] = ApplyPatch(@, req.json_data)]
                 ELSE ledger
    /\ UNCHANGED <<bcast, listing, calc, economies, officers, transfers, audit, clock, transferVars, registryVars>>

\* _make_request calling itself again without the api_delay sleep.
RequestRetryNoDelay ==
    /\ req.pc = "backoff"
    /\ req' = [req EXCEPT !.pc = "sent",
                          !.resends = IF @ < MaxResends THEN @ + 1 ELSE @]
    /\ UNCHANGED <<bcast, listing, calc, economies, officers, transfers, audit, clock, ledger, transferVars,
                   registryVars>>

\* Line 48: asyncio.sleep(self.api_delay) is over, the request goes out.
RequestSend ==
    /\ req.pc = "delay"
    /\ req' = [req EXCEPT !.pc = "sent"]
    /\ UNCHANGED <<bcast, listing, calc, economies, officers, transfers, audit, clock, ledger, transferVars,
                   registryVars>>

\* Lines 50-76: the response.  200: the data (a PATCH has been applied by the
\* remote); 429: sleep(retry_after) and then the same call again, unless
\* int() raised; anything else: None.
RequestResponse(status, header) ==
    /\ req.pc = "sent"
    /\ req' = IF status = "200"
              THEN [req EXCEPT !.pc = "done", !.status = status, !.result = "data"]
              ELSE IF status = "429" /\ RetryAfter(header) >= 0
              THEN [req EXCEPT !.pc = "backoff", !.status = status,
                               !.retry_after = RetryAfter(header)]
              ELSE [req EXCEPT !.pc = "done", !.status = status, !.result = "None"]
    /\ ledger' = IF status = "200" /\ req.method = "PATCH"
                 THEN [ledger EXCEPT ![req.account] = ApplyPatch(@, req.json_data)]
                 ELSE ledger
    /\ UNCHANGED <<bcast, listing, calc, economies, officers, transfers, audit, clock, transferVars, registryVars>>

\* Lines 58-59: asyncio.sleep(retry_after) is over;
\* return await self._make_request(method, endpoint, json_data).  The code
\* keeps no retry count; the interpreter's recursion depth is not modelled.
RequestRetry ==
    /\ req.pc = "backoff"
    /\ req' = [req EXCEPT !.pc = "delay",
                          !.resends = IF @ < MaxResends THEN @ + 1 ELSE @]
    /\ UNCHANGED <<bcast, listing, calc, economies, officers, transfers, audit, clock, ledger, transferVars,
                   registryVars>>

\* The caller has the result.
RequestReturn ==
    /\ req.pc = "done"
    /\ req' = IdleReq
    /\ UNCHANGED <<bcast, listing, calc, economies, officers, transfers, audit, clock, ledger, transferVars,
                   registryVars>>

----------------------------------------------------------------------------
(* cogs/transfer.py: the /transfer command.                                *)

\* The conversion with the USD amount cut to whole dollars.
ConvertWholeUsd(amount, rateSource, rateTarget) == RMul(Int2Rat((amount[1] * rateSource[2]) \div (amount[2] * rateSource[1])), rateTarget)

\* The conversion with the two rates exchanged: amount / rateTarget * rateSource.
ConvertInverted(amount, rateSource, rateTarget) == RMul(RDiv(amount, rateTarget), rateSource)

\* amount / source rate * target rate.
Convert(amount, rateSource, rateTarget) == RMul(RDiv(amount, rateSource), rateTarget)

\* No conversion computed.  x is the amount, rA and rB the two economies'
\* rates, y the amount converted from A to B, z that amount converted back.
IdleCalc ==
    [pc |-> "idle", x |-> Zero, rA |-> Int2Rat(1), rB |-> Int2Rat(1), y |-> Zero, z |-> Zero]

\* Lines 127-128 in a transfer of x from economy A to economy B.
ConvertThere ==
    /\ calc.pc = "in"
    /\ calc' = [calc EXCEPT !.pc = "there", !.y = Convert(calc.x, calc.rA, calc.rB)]
    /\ UNCHANGED <<bcast, listing, req, economies, officers, transfers, audit, clock, ledger, transferVars,
                   registryVars>>

\* Lines 127-128 in the transfer of what arrived, from B back to A.
ConvertBack ==
    /\ calc.pc = "there"
    /\ calc' = [calc EXCEPT !.pc = "back", !.z = Convert(calc.y, calc.rB, calc.rA)]
    /\ UNCHANGED <<bcast, listing, req, economies, officers, transfers, audit, clock, ledger, transferVars,
                   registryVars>>

\* The for loop over the approved economies: the last row whose lowered name
\* equals the lowered argument wins; 0 when none does.
RECURSIVE FindByName(_, _, _)
FindByName(rows, name, i) ==
    IF i = 0 THEN 0
    ELSE IF Lower(rows[i].guild_name) = Lower(name) THEN i
    ELSE FindByName(rows, name, i - 1)

NoRow == NewEconomyRow("g1", "", Zero, NoUser, 0)

IdleCmd ==
    [pc |-> "idle", user |-> NoUser, amount |-> Zero, wallet_type |-> "",
     source_economy |-> NoRow, target_economy |-> NoRow,
     calls |-> 0, outcome |-> "none"]

\* Lines 53-107: the Validate stage.  The outcome, "ok" when all checks pass.
ValidateOutcome(rows, source_server, target_server, amount, wallet_type) ==
    LET s == FindByName(rows, source_server, Len(rows))
        t == FindByName(rows, target_server, Len(rows))
    IN  IF wallet_type \notin {"cash", "bank"} THEN "InvalidWallet"
        ELSE IF RLess(amount, Int2Rat(MinTransferAmount))
                \/ RLess(Int2Rat(MaxTransferAmount), amount) THEN "InvalidAmount"
        ELSE IF s = 0 THEN "SourceNotFound"
        ELSE IF t = 0 THEN "TargetNotFound"
        ELSE IF rows[s].guild_id = rows[t].guild_id THEN "SameEconomy"
        ELSE "ok"

ValidationErrors ==
    {"InvalidWallet", "InvalidAmount", "SourceNotFound", "TargetNotFound", "SameEconomy"}

\* transfer() with the balance check moved in front of the validation: one
\* ledger call has been made when a request is rejected.
TransferValidateLate(user, target_server, source_server, amount, wallet_arg) ==
    /\ cmd.pc = "idle"
    /\ LET wallet_type == Lower(wallet_arg)
           rows == GetAllEconomies(economies, "approved")
           res == ValidateOutcome(rows, source_server, target_server, amount, wallet_type)
       IN  IF res # "ok"
           THEN cmd' = [cmd EXCEPT !.pc = "done", !.user = user, !.amount = amount,
                                   !.wallet_type = wallet_type, !.outcome = res,
                                   !.calls = @ + 1]
           ELSE cmd' = [cmd EXCEPT
                   !.pc = "check", !.user = user, !.amount = amount,
                   !.wallet_type = wallet_type,
                   !.source_economy = rows[FindByName(rows, source_server, Len(rows))],
                   !.target_economy = rows[FindByName(rows, target_server, Len(rows))]]
    /\ UNCHANGED <<bcast, listing, calc, req, economies, officers, transfers, audit, clock, ledger, views, cbs, registryVars>>

\* transfer(), up to its first ledger call.
TransferValidate(user, target_server, source_server, amount, wallet_arg) ==
    /\ cmd.pc = "idle"
    /\ LET wallet_type == Lower(wallet_arg)
           rows == GetAllEconomies(economies, "approved")
           res == ValidateOutcome(rows, source_server, target_server, amount, wallet_type)
       IN  IF res # "ok"
           THEN cmd' = [cmd EXCEPT !.pc = "done", !.user = user, !.amount = amount,
                                   !.wallet_type = wallet_type, !.outcome = res]
           ELSE cmd' = [cmd EXCEPT
                   !.pc = "check", !.user = user, !.amount = amount,
                   !.wallet_type = wallet_type,
                   !.source_economy = rows[FindByName(rows, source_server, Len(rows))],
                   !.target_economy = rows[FindByName(rows, target_server, Len(rows))]]
    /\ UNCHANGED <<bcast, listing, calc, req, economies, officers, transfers, audit, clock, ledger, views, cbs, registryVars>>

\* The ConfirmTransferView built at lines 163-171.
NewView(user, source_economy, target_economy, amount, target_amount, wallet_type) ==
    [user_id |-> user, source_economy |-> source_economy,
     target_economy |-> target_economy, amount |-> amount,
     target_amount |-> target_amount, wallet_type |-> wallet_type,
     stopped |-> FALSE,
     \* history: Cancel acknowledged, and for whom; a press by another user
     \* turned away;
     \* modify_user_balance calls made for the debit, the credit and the
     \* rollback by this view's callbacks
     cancel_acked |-> FALSE, cancelled_by |-> NoUser, refused |-> FALSE,
     debits |-> 0, credits |-> 0, rollbacks |-> 0]

\* transfer(), from user_has_sufficient_balance (one GET) to the prompt.
TransferCheckBalance(resp) ==
    /\ cmd.pc = "check"
    /\ LET acct == <<cmd.source_economy.guild_id, cmd.user>>
           has_balance == resp = "ok"
                          /\ HasSufficientBalance(ledger[acct], cmd.amount, cmd.wallet_type)
           target_amount == Convert(cmd.amount, cmd.source_economy.rate_usd,
                                    cmd.target_economy.rate_usd)
       IN  /\ cmd' = [cmd EXCEPT !.pc = "done", !.calls = @ + 1,
                        !.outcome = IF resp = "raise" THEN "Error"
                                    ELSE IF has_balance THEN "Prompt"
                                    ELSE "InsufficientFunds"]
           /\ views' = IF resp # "raise" /\ has_balance
                       THEN Append(views, NewView(cmd.user, cmd.source_economy,
                                cmd.target_economy, cmd.amount, target_amount,
                                cmd.wallet_type))
                       ELSE views
    /\ UNCHANGED <<bcast, listing, calc, req, economies, officers, transfers, audit, clock, ledger, cbs, registryVars>>

\* transfer() has returned; the user may invoke /transfer again.
TransferReturn ==
    /\ cmd.pc = "done"
    /\ Len(views) < MaxPrompts
    /\ cmd' = IdleCmd
    /\ UNCHANGED <<bcast, listing, calc, req, economies, officers, transfers, audit, clock, ledger, views, cbs, registryVars>>

----------------------------------------------------------------------------
(* cogs/transfer.py: ConfirmTransferView.                                  *)

\* cash_change / bank_change as confirm passes them: only the chosen wallet.
CashChange(wallet_type, amount) == IF wallet_type = "cash" THEN Some(amount) ELSE None
BankChange(wallet_type, amount) == IF wallet_type = "cash" THEN None ELSE Some(amount)

SourceAccount(c) == <<views[cbs[c].view].source_economy.guild_id, cbs[c].user>>
TargetAccount(c) == <<views[cbs[c].view].target_economy.guild_id, cbs[c].user>>

\* A confirm callback just dispatched.  pre, post, debited, credited,
\* credit_failed, rb_issued, rb_ok and disturbed are history, not program state.
NewCallback(v, user) ==
    [view |-> v, user |-> user, pc |-> "check", outcome |-> "none",
     new |-> [cash |-> Zero, bank |-> Zero],
     pre |-> ledger[<<views[v].source_economy.guild_id, views[v].user_id>>],
     post |-> [cash |-> Zero, bank |-> Zero],
     debited |-> FALSE, credited |-> FALSE, credit_failed |-> FALSE,
     rb_issued |-> FALSE, rb_ok |-> FALSE, disturbed |-> FALSE]

\* The view dispatches a button press while it is neither stopped nor timed out.
Dispatchable(v) == v \in 1..Len(views) /\ ~views[v].stopped

\* confirm without the user check: any user's press starts the saga, on
\* that user's accounts.
ConfirmClickAnyone(v, user) ==
    /\ Dispatchable(v)
    /\ Len(cbs) < MaxConfirms
    /\ cbs' = Append(cbs, NewCallback(v, user))
    /\ views' = views
    /\ UNCHANGED <<bcast, listing, calc, req, economies, officers, transfers, audit, clock, ledger, cmd, registryVars>>

\* confirm, lines 251-260: the user check and defer().  Another user's press
\* is answered "This transfer belongs to someone else" and nothing more.
ConfirmClick(v, user) ==
    /\ Dispatchable(v)
    /\ IF user # views[v].user_id
       THEN /\ ~views[v].refused
            /\ views' = [views EXCEPT ![v].refused = TRUE]
            /\ cbs' = cbs
       ELSE /\ Len(cbs) < MaxConfirms
            /\ cbs' = Append(cbs, NewCallback(v, user))
            /\ views' = views
    /\ UNCHANGED <<bcast, listing, calc, req, economies, officers, transfers, audit, clock, ledger, cmd, registryVars>>

\* The callback returns: what it told the user, and the source balance then.
Return(cb, outcome, bal) == [cb EXCEPT !.pc = "done", !.outcome = outcome, !.post = bal]

\* A write by callback c reached account acct: every other callback still
\* running on that source account has been interfered with.
MarkDisturbed(c, acct) ==
    [i \in DOMAIN cbs |->
        IF i # c /\ cbs[i].pc # "done" /\ SourceAccount(i) = acct
        THEN [cbs[i] EXCEPT !.disturbed = TRUE] ELSE cbs[i]]

Stop(v) == [views EXCEPT ![v].stopped = TRUE]

\* The remote after a PATCH of `new` on acct that answered resp.
Patched(acct, new, resp) ==
    IF resp = "none" THEN ledger
    ELSE [ledger EXCEPT ![acct] = ApplyPatch(@, PatchBody(Some(new.cash), Some(new.bank)))]

\* confirm going from the balance double-check straight to the credit.
CbCheckThenCredit(c, resp) ==
    /\ c \in 1..Len(cbs) /\ cbs[c].pc = "check"
    /\ LET v == cbs[c].view
           bal == ledger[SourceAccount(c)]
           has_balance == resp = "ok"
                          /\ HasSufficientBalance(bal, views[v].amount, views[v].wallet_type)
       IN  IF resp = "raise"
           THEN /\ cbs' = [cbs EXCEPT ![c] = Return(@, "Crashed", bal)]
                /\ views' = views
           ELSE IF has_balance
           THEN /\ cbs' = [cbs EXCEPT ![c].pc = "credit_read"]
                /\ views' = views
           ELSE /\ cbs' = [cbs EXCEPT ![c] = Return(@, "InsufficientFunds", bal)]
                /\ views' = Stop(v)
    /\ UNCHANGED <<bcast, listing, calc, req, economies, officers, transfers, audit, clock, ledger, cmd, registryVars>>

\* Lines 265-279: the balance double-check (one GET).  An exception here is
\* outside the try: the callback dies without stop().
CbCheck(c, resp) ==
    /\ c \in 1..Len(cbs) /\ cbs[c].pc = "check"
    /\ LET v == cbs[c].view
           bal == ledger[SourceAccount(c)]
           has_balance == resp = "ok"
                          /\ HasSufficientBalance(bal, views[v].amount, views[v].wallet_type)
       IN  IF resp = "raise"
           THEN /\ cbs' = [cbs EXCEPT ![c] = Return(@, "Crashed", bal)]
                /\ views' = views
           ELSE IF has_balance
           THEN /\ cbs' = [cbs EXCEPT ![c].pc = "debit_read"]
                /\ views' = views
           ELSE /\ cbs' = [cbs EXCEPT ![c] = Return(@, "InsufficientFunds", bal)]
                /\ views' = Stop(v)
    /\ UNCHANGED <<bcast, listing, calc, req, economies, officers, transfers, audit, clock, ledger, cmd, registryVars>>

\* modify_user_balance, lines 153-171: the GET and the computation, before
\* the PATCH.  "raise": the GET's body broke float(); "none": the function
\* returns None (no balance read, or a wallet would go negative); "ok": it
\* goes on to set_user_balance with NewBalance(...).
ModifyRead(acct, cash_change, bank_change, resp) ==
    IF resp = "raise" THEN "raise"
    ELSE IF resp = "none" THEN "none"
    ELSE IF WouldBeNegative(NewBalance(ledger[acct], cash_change, bank_change)) THEN "none"
    ELSE "ok"

\* Lines 283-305: the debit's modify_user_balance up to its PATCH.  None:
\* "Failed to deduct", stop(), return.  An exception: the except clause at
\* line 396, then stop() at line 403.
CbDebitRead(c, resp) ==
    /\ c \in 1..Len(cbs) /\ cbs[c].pc = "debit_read"
    /\ LET v == cbs[c].view
           acct == SourceAccount(c)
           cc == CashChange(views[v].wallet_type, RNeg(views[v].amount))
           bc == BankChange(views[v].wallet_type, RNeg(views[v].amount))
           r == ModifyRead(acct, cc, bc, resp)
           counted == [views EXCEPT ![v].debits = @ + 1]
       IN  /\ cbs' = [cbs EXCEPT ![c] =
                  IF r = "ok" THEN [@ EXCEPT !.pc = "debit_write",
                                             !.new = NewBalance(ledger[acct], cc, bc)]
                  ELSE IF r = "none" THEN Return(@, "DebitFailed", ledger[acct])
                  ELSE Return(@, "Error", ledger[acct])]
           /\ views' = IF r = "ok" THEN counted ELSE [counted EXCEPT ![v].stopped = TRUE]
    /\ UNCHANGED <<bcast, listing, calc, req, economies, officers, transfers, audit, clock, ledger, cmd, registryVars>>

\* confirm going on to the rollback when the debit returned None.
CbDebitWriteCompensate(c, resp) ==
    /\ c \in 1..Len(cbs) /\ cbs[c].pc = "debit_write"
    /\ LET v == cbs[c].view
           acct == SourceAccount(c)
           led == Patched(acct, cbs[c].new, resp)
           others == IF resp = "none" THEN cbs ELSE MarkDisturbed(c, acct)
       IN  /\ ledger' = led
           /\ cbs' = [others EXCEPT ![c] =
                  IF resp = "ok" THEN [@ EXCEPT !.pc = "credit_read", !.debited = TRUE]
                  ELSE IF resp = "none" THEN [@ EXCEPT !.pc = "rb_read"]
                  ELSE Return([@ EXCEPT !.debited = TRUE], "Error", led[acct])]
           /\ views' = IF resp = "raise" THEN Stop(v) ELSE views
    /\ UNCHANGED <<bcast, listing, calc, req, economies, officers, transfers, audit, clock, cmd, registryVars>>

\* Line 174 for the debit: the PATCH.
CbDebitWrite(c, resp) ==
    /\ c \in 1..Len(cbs) /\ cbs[c].pc = "debit_write"
    /\ LET v == cbs[c].view
           acct == SourceAccount(c)
           led == Patched(acct, cbs[c].new, resp)
           others == IF resp = "none" THEN cbs ELSE MarkDisturbed(c, acct)
       IN  /\ ledger' = led
           /\ cbs' = [others EXCEPT ![c] =
                  IF resp = "ok" THEN [@ EXCEPT !.pc = "credit_read", !.debited = TRUE]
                  ELSE IF resp = "none" THEN Return(@, "DebitFailed", led[acct])
                  ELSE Return([@ EXCEPT !.debited = TRUE], "Error", led[acct])]
           /\ views' = IF resp = "ok" THEN views ELSE Stop(v)
    /\ UNCHANGED <<bcast, listing, calc, req, economies, officers, transfers, audit, clock, cmd, registryVars>>

\* Lines 307-323: the credit's modify_user_balance up to its PATCH.  None:
\* on to the rollback.
CbCreditRead(c, resp) ==
    /\ c \in 1..Len(cbs) /\ cbs[c].pc = "credit_read"
    /\ LET v == cbs[c].view
           acct == TargetAccount(c)
           cc == CashChange(views[v].wallet_type, views[v].target_amount)
           bc == BankChange(views[v].wallet_type, views[v].target_amount)
           r == ModifyRead(acct, cc, bc, resp)
           counted == [views EXCEPT ![v].credits = @ + 1]
       IN  /\ cbs' = [cbs EXCEPT ![c] =
                  IF r = "ok" THEN [@ EXCEPT !.pc = "credit_write",
                                             !.new = NewBalance(ledger[acct], cc, bc)]
                  ELSE IF r = "none" THEN [@ EXCEPT !.pc = "rb_read", !.credit_failed = TRUE]
                  ELSE Return([@ EXCEPT !.credit_failed = TRUE], "Error",
                              ledger[SourceAccount(c)])]
           /\ views' = IF r = "raise" THEN [counted EXCEPT ![v].stopped = TRUE] ELSE counted
    /\ UNCHANGED <<bcast, listing, calc, req, economies, officers, transfers, audit, clock, ledger, cmd, registryVars>>

\* Line 174 for the credit: the PATCH.
CbCreditWrite(c, resp) ==
    /\ c \in 1..Len(cbs) /\ cbs[c].pc = "credit_write"
    /\ LET v == cbs[c].view
           acct == TargetAccount(c)
           led == Patched(acct, cbs[c].new, resp)
           others == IF resp = "none" THEN cbs ELSE MarkDisturbed(c, acct)
       IN  /\ ledger' = led
           /\ cbs' = [others EXCEPT ![c] =
                  IF resp = "ok" THEN [@ EXCEPT !.pc = "log", !.credited = TRUE]
                  ELSE IF resp = "none" THEN [@ EXCEPT !.pc = "rb_read", !.credit_failed = TRUE]
                  ELSE Return([@ EXCEPT !.credited = TRUE], "Error",
                              led[SourceAccount(c)])]
           /\ views' = IF resp = "raise" THEN Stop(v) ELSE views
    /\ UNCHANGED <<bcast, listing, calc, req, economies, officers, transfers, audit, clock, cmd, registryVars>>

\* Lines 323-345: the rollback's modify_user_balance up to its PATCH.  Its
\* result is not looked at: None or not, "Transfer rolled back", stop().
CbRollbackRead(c, resp) ==
    /\ c \in 1..Len(cbs) /\ cbs[c].pc = "rb_read"
    /\ LET v == cbs[c].view
           acct == SourceAccount(c)
           cc == CashChange(views[v].wallet_type, views[v].amount)
           bc == BankChange(views[v].wallet_type, views[v].amount)
           r == ModifyRead(acct, cc, bc, resp)
           counted == [views EXCEPT ![v].rollbacks = @ + 1]
           begun == [cbs[c] EXCEPT !.rb_issued = TRUE]
       IN  /\ cbs' = [cbs EXCEPT ![c] =
                  IF r = "ok" THEN [begun EXCEPT !.pc = "rb_write",
                                                  !.new = NewBalance(ledger[acct], cc, bc)]
                  ELSE IF r = "none" THEN Return(begun, "RolledBack", ledger[acct])
                  ELSE Return(begun, "Error", ledger[acct])]
           /\ views' = IF r = "ok" THEN counted ELSE [counted EXCEPT ![v].stopped = TRUE]
    /\ UNCHANGED <<bcast, listing, calc, req, economies, officers, transfers, audit, clock, ledger, cmd, registryVars>>

\* Line 174 for the rollback: the PATCH; then lines 340-345.
CbRollbackWrite(c, resp) ==
    /\ c \in 1..Len(cbs) /\ cbs[c].pc = "rb_write"
    /\ LET v == cbs[c].view
           acct == SourceAccount(c)
           led == Patched(acct, cbs[c].new, resp)
           others == IF resp = "none" THEN cbs ELSE MarkDisturbed(c, acct)
       IN  /\ ledger' = led
           /\ cbs' = [others EXCEPT ![c] =
                  IF resp = "ok" THEN Return([@ EXCEPT !.rb_ok = TRUE], "RolledBack", led[acct])
                  ELSE IF resp = "none" THEN Return(@, "RolledBack", led[acct])
                  ELSE Return([@ EXCEPT !.rb_ok = TRUE], "Error", led[acct])]
           /\ views' = Stop(v)
    /\ UNCHANGED <<bcast, listing, calc, req, economies, officers, transfers, audit, clock, cmd, registryVars>>

\* log_transfer's INSERT.
TransferRow(user, source_economy, target_economy, amount, target_amount, wallet_type, exchange_rate, now) ==
    [user_id |-> user, from_guild_id |-> source_economy.guild_id,
     to_guild_id |-> target_economy.guild_id, amount_source |-> amount,
     amount_target |-> target_amount, wallet_type |-> wallet_type,
     exchange_rate |-> exchange_rate, timestamp |-> now]

\* confirm reporting an error, with no record, when log_transfer or
\* log_action returned False.
CbCompleteStrict(c, logged, audited) ==
    /\ c \in 1..Len(cbs) /\ cbs[c].pc = "log"
    /\ LET v == cbs[c].view
           vw == views[v]
           exchange_rate == RDiv(vw.target_economy.rate_usd, vw.source_economy.rate_usd)
       IN  /\ transfers' = IF logged /\ audited
                           THEN Append(transfers,
                                  TransferRow(cbs[c].user, vw.source_economy,
                                      vw.target_economy, vw.amount, vw.target_amount,
                                      vw.wallet_type, exchange_rate, clock))
                           ELSE transfers
           /\ audit' = IF logged /\ audited
                       THEN LogAction(audit, "transfer", cbs[c].user,
                                      vw.source_economy.guild_id)
                       ELSE audit
           /\ cbs' = [cbs EXCEPT ![c] =
                  Return(@, IF logged /\ audited THEN "Complete" ELSE "Error",
                         ledger[SourceAccount(c)])]
           /\ views' = Stop(v)
    /\ UNCHANGED <<bcast, listing, calc, req, economies, officers, clock, ledger, cmd, registryVars>>

\* Lines 347-394 and 403: log_transfer, log_action (either may fail and
\* return False, which confirm ignores), the success embed, stop().
CbComplete(c, logged, audited) ==
    /\ c \in 1..Len(cbs) /\ cbs[c].pc = "log"
    /\ LET v == cbs[c].view
           vw == views[v]
           exchange_rate == RDiv(vw.target_economy.rate_usd, vw.source_economy.rate_usd)
       IN  /\ transfers' = IF logged
                           THEN Append(transfers,
                                  TransferRow(cbs[c].user, vw.source_economy,
                                      vw.target_economy, vw.amount, vw.target_amount,
                                      vw.wallet_type, exchange_rate, clock))
                           ELSE transfers
           /\ audit' = IF audited
                       THEN LogAction(audit, "transfer", cbs[c].user,
                                      vw.source_economy.guild_id)
                       ELSE audit
           /\ cbs' = [cbs EXCEPT ![c] = Return(@, "Complete", ledger[SourceAccount(c)])]
           /\ views' = Stop(v)
    /\ UNCHANGED <<bcast, listing, calc, req, economies, officers, clock, ledger, cmd, registryVars>>

\* cancel, lines 405-414: the user check and the acknowledgement.  Another
\* user's press is answered "This transfer belongs to someone else".
CancelClick(v, user) ==
    /\ Dispatchable(v)
    /\ IF user # views[v].user_id
       THEN /\ ~views[v].refused
            /\ views' = [views EXCEPT ![v].refused = TRUE]
       ELSE /\ ~views[v].cancel_acked
            /\ views' = [views EXCEPT ![v].cancel_acked = TRUE,
                                      ![v].cancelled_by = user]
    /\ UNCHANGED <<bcast, listing, calc, req, economies, officers, transfers, audit, clock, ledger, cmd, cbs, registryVars>>

\* cancel, line 415: stop(), once send_message has returned.
CancelStop(v) ==
    /\ v \in 1..Len(views)
    /\ views[v].cancel_acked /\ ~views[v].stopped
    /\ views' = Stop(v)
    /\ UNCHANGED <<bcast, listing, calc, req, economies, officers, transfers, audit, clock, ledger, cmd, cbs, registryVars>>

\* View(timeout=120), line 242: the view stops dispatching.
ViewTimeout(v) ==
    /\ Dispatchable(v)
    /\ views' = Stop(v)
    /\ UNCHANGED <<bcast, listing, calc, req, economies, officers, transfers, audit, clock, ledger, cmd, cbs, registryVars>>

----------------------------------------------------------------------------
(* cogs/database.py: the approved_officers table; cogs/admin.py.           *)

IsOfficer(tbl, user) == user \in tbl

\* add_officer: user_id is the PRIMARY KEY; False on IntegrityError.
AddOfficerOk(tbl, user) == user \notin tbl
AddOfficer(tbl, user) == tbl \cup {user}

\* remove_officer: DELETE ... WHERE user_id = ?.  Always returns True.
RemoveOfficer(tbl, user) == tbl \ {user}

IsOfficerOrOwner(user) == user = Owner \/ IsOfficer(officers, user)

Reply(kind, user, guild, outcome) ==
    [kind |-> kind, user |-> user, guild |-> guild, outcome |-> outcome]

Task(kind, user, guild, rate, view) ==
    [kind |-> kind, user |-> user, guild |-> guild, rate |-> rate, view |-> view]

\* The sequence without its i-th element.
Without(seq, i) == SubSeq(seq, 1, i - 1) \o SubSeq(seq, i + 1, Len(seq))

\* A user sends one more command, press or message.
Issue == issued < MaxCommands /\ issued' = issued + 1

\* on_message, "add officer <id>": only the owner's direct messages count.
AddOfficerMessage(author, user) ==
    /\ author = Owner
    /\ Issue
    /\ officers' = AddOfficer(officers, user)
    /\ audit' = IF AddOfficerOk(officers, user)
                THEN LogAction(audit, "officer_added", author, "")
                ELSE audit
    /\ reply' = Reply("add_officer", author, user,
                      IF AddOfficerOk(officers, user) THEN "Added" ELSE "AlreadyOfficer")
    /\ UNCHANGED <<bcast, listing, calc, req, economies, transfers, clock, ledger, transferVars,
                   approvals, wviews, tasks>>

\* on_message, "remove officer <id>".
RemoveOfficerMessage(author, user) ==
    /\ author = Owner
    /\ Issue
    /\ officers' = RemoveOfficer(officers, user)
    /\ audit' = LogAction(audit, "officer_removed", author, "")
    /\ reply' = Reply("remove_officer", author, user, "Removed")
    /\ UNCHANGED <<bcast, listing, calc, req, economies, transfers, clock, ledger, transferVars,
                   approvals, wviews, tasks>>

\* on_message, lines 164-166: a direct message from anyone but the owner is
\* dropped without an answer.
IgnoredMessage(author) ==
    /\ author # Owner
    /\ Issue
    /\ UNCHANGED <<bcast, listing, calc, req, economies, officers, transfers, audit, clock, ledger,
                   transferVars, approvals, wviews, tasks, reply>>

\* add_officer_context without the owner check.
AddOfficerContextAnyone(author, user) ==
    /\ Issue
    /\ officers' = AddOfficer(officers, user)
    /\ audit' = IF AddOfficerOk(officers, user)
                THEN LogAction(audit, "officer_added", author, "")
                ELSE audit
    /\ reply' = Reply("add_officer_context", author, user,
                      IF AddOfficerOk(officers, user) THEN "Added" ELSE "AlreadyOfficer")
    /\ UNCHANGED <<bcast, listing, calc, req, economies, transfers, clock, ledger, transferVars,
                   approvals, wviews, tasks>>

\* add_officer_context, lines 254-280: the "Add as Officer" context menu.
AddOfficerContext(author, user) ==
    /\ Issue
    /\ IF author # Owner
       THEN /\ reply' = Reply("add_officer_context", author, user, "OwnerOnly")
            /\ UNCHANGED <<officers, audit>>
       ELSE /\ officers' = AddOfficer(officers, user)
            /\ audit' = IF AddOfficerOk(officers, user)
                        THEN LogAction(audit, "officer_added", author, "")
                        ELSE audit
            /\ reply' = Reply("add_officer_context", author, user,
                              IF AddOfficerOk(officers, user) THEN "Added"
                              ELSE "AlreadyOfficer")
    /\ UNCHANGED <<bcast, listing, calc, req, economies, transfers, clock, ledger, transferVars,
                   approvals, wviews, tasks>>

----------------------------------------------------------------------------
(* cogs/economy.py: /economy optin, ApprovalView, /economy withdraw.       *)

\* optin without the lower bound on the rate.
OptinCheckNoMin(g, user, rate) ==
    /\ Issue
    /\ IF RLess(Int2Rat(MaxExchangeRate), rate)
       THEN /\ reply' = Reply("optin", user, g, "InvalidRate")
            /\ tasks' = tasks
       ELSE IF g \in DOMAIN economies
       THEN /\ reply' = Reply("optin", user, g, economies[g].status)
            /\ tasks' = tasks
       ELSE /\ tasks' = Append(tasks, Task("optin", user, g, rate, 0))
            /\ reply' = reply
    /\ UNCHANGED <<bcast, listing, calc, req, economies, officers, transfers, audit, clock, ledger, transferVars,
                   approvals, wviews>>

\* optin, lines 63-107: the rate bounds and the "already applied" check.
OptinCheck(g, user, rate) ==
    /\ Issue
    /\ IF RLess(rate, MinExchangeRate) \/ RLess(Int2Rat(MaxExchangeRate), rate)
       THEN /\ reply' = Reply("optin", user, g, "InvalidRate")
            /\ tasks' = tasks
       ELSE IF g \in DOMAIN economies
       THEN /\ reply' = Reply("optin", user, g, economies[g].status)
            /\ tasks' = tasks
       ELSE /\ tasks' = Append(tasks, Task("optin", user, g, rate, 0))
            /\ reply' = reply
    /\ UNCHANGED <<bcast, listing, calc, req, economies, officers, transfers, audit, clock, ledger, transferVars,
                   approvals, wviews>>

\* optin, lines 109-179: validate_guild_access (access: it returned True),
\* add_economy, log_action, the ApprovalView (posted: the approval channel
\* was found and the send did not raise).
OptinInsert(i, access, posted) ==
    /\ i \in 1..Len(tasks) /\ tasks[i].kind = "optin"
    /\ LET t == tasks[i]
           ok == access /\ AddEconomyOk(economies, t.guild)
       IN  /\ economies' = IF ok
                           THEN AddEconomy(economies, t.guild, GuildName(t.guild),
                                           t.rate, t.user, clock + 1)
                           ELSE economies
           /\ clock' = IF ok THEN clock + 1 ELSE clock
           /\ audit' = IF ok THEN LogAction(audit, "economy_optin", t.user, t.guild)
                       ELSE audit
           /\ approvals' = IF ok /\ posted
                           THEN Append(approvals, [guild_id |-> t.guild, disabled |-> FALSE])
                           ELSE approvals
           /\ reply' = Reply("optin", t.user, t.guild,
                             IF ~access THEN "NoApiAccess"
                             ELSE IF ok THEN "Submitted" ELSE "SubmitFailed")
           /\ tasks' = Without(tasks, i)
    /\ UNCHANGED <<bcast, listing, calc, req, officers, transfers, ledger, transferVars, wviews, issued>>

\* A button of ApprovalView a can still be pressed.
Pressable(a) == a \in 1..Len(approvals) /\ ~approvals[a].disabled

\* approve_button / reject_button, up to defer(): db.is_officer alone decides.
ApprovalClick(a, user, kind) ==
    /\ Pressable(a)
    /\ Issue
    /\ IF ~IsOfficer(officers, user)
       THEN /\ reply' = Reply(kind, user, approvals[a].guild_id, "Unauthorized")
            /\ tasks' = tasks
       ELSE /\ tasks' = Append(tasks, Task(kind, user, approvals[a].guild_id, Zero, a))
            /\ reply' = reply
    /\ UNCHANGED <<bcast, listing, calc, req, economies, officers, transfers, audit, clock, ledger, transferVars,
                   approvals, wviews>>

ApproveClick(a, user) == ApprovalClick(a, user, "approve")
RejectClick(a, user) == ApprovalClick(a, user, "reject")

\* approve_button, lines 331-351: update_economy_status(guild, 'approved',
\* user), log_action, the buttons disabled on the edited message.
ApproveUpdate(i) ==
    /\ i \in 1..Len(tasks) /\ tasks[i].kind = "approve"
    /\ LET t == tasks[i]
       IN  /\ economies' = UpdateEconomyStatus(economies, t.guild, "approved", t.user, clock)
           /\ audit' = LogAction(audit, "economy_approved", t.user, t.guild)
           /\ approvals' = [approvals EXCEPT ![t.view].disabled = TRUE]
           /\ reply' = Reply("approve", t.user, t.guild, "Approved")
           /\ tasks' = Without(tasks, i)
    /\ UNCHANGED <<bcast, listing, calc, req, officers, transfers, clock, ledger, transferVars, wviews, issued>>

\* reject_button, lines 392-412: update_economy_status(guild, 'rejected').
RejectUpdate(i) ==
    /\ i \in 1..Len(tasks) /\ tasks[i].kind = "reject"
    /\ LET t == tasks[i]
       IN  /\ economies' = UpdateEconomyStatus(economies, t.guild, "rejected", NoUser, clock)
           /\ audit' = LogAction(audit, "economy_rejected", t.user, t.guild)
           /\ approvals' = [approvals EXCEPT ![t.view].disabled = TRUE]
           /\ reply' = Reply("reject", t.user, t.guild, "Rejected")
           /\ tasks' = Without(tasks, i)
    /\ UNCHANGED <<bcast, listing, calc, req, officers, transfers, clock, ledger, transferVars, wviews, issued>>

\* withdraw, lines 271-297: get_economy, then the confirmation prompt.
WithdrawCommand(g, user) ==
    /\ Issue
    /\ IF g \notin DOMAIN economies
       THEN /\ reply' = Reply("withdraw", user, g, "NotMember")
            /\ wviews' = wviews
       ELSE /\ wviews' = Append(wviews, [guild_id |-> g, user_id |-> user, stopped |-> FALSE])
            /\ reply' = reply
    /\ UNCHANGED <<bcast, listing, calc, req, economies, officers, transfers, audit, clock, ledger, transferVars,
                   approvals, tasks>>

\* ConfirmWithdrawView.confirm, lines 425-434: the user check and defer().
WithdrawClick(w, user) ==
    /\ w \in 1..Len(wviews) /\ ~wviews[w].stopped
    /\ user = wviews[w].user_id
    /\ Issue
    /\ tasks' = Append(tasks, Task("withdraw", user, wviews[w].guild_id, Zero, w))
    /\ UNCHANGED <<bcast, listing, calc, req, economies, officers, transfers, audit, clock, ledger, transferVars,
                   approvals, wviews, reply>>

\* ConfirmWithdrawView.confirm, lines 436-451: remove_economy, log_action,
\* the reply, stop().
WithdrawRemove(i) ==
    /\ i \in 1..Len(tasks) /\ tasks[i].kind = "withdraw"
    /\ LET t == tasks[i]
       IN  /\ economies' = RemoveEconomy(economies, t.guild)
           /\ audit' = LogAction(audit, "economy_withdraw", t.user, t.guild)
           /\ wviews' = [wviews EXCEPT ![t.view].stopped = TRUE]
           /\ reply' = Reply("withdraw", t.user, t.guild, "Withdrawn")
           /\ tasks' = Without(tasks, i)
    /\ UNCHANGED <<bcast, listing, calc, req, officers, transfers, clock, ledger, transferVars, approvals, issued>>

\* ConfirmWithdrawView.cancel.
WithdrawCancel(w, user) ==
    /\ w \in 1..Len(wviews) /\ ~wviews[w].stopped
    /\ user = wviews[w].user_id
    /\ Issue
    /\ wviews' = [wviews EXCEPT ![w].stopped = TRUE]
    /\ reply' = Reply("withdraw", user, wviews[w].guild_id, "Cancelled")
    /\ UNCHANGED <<bcast, listing, calc, req, economies, officers, transfers, audit, clock, ledger, transferVars,
                   approvals, tasks>>

\* Nothing listed yet.  n counts the get_all_economies calls /economy list
\* has made; status and rows are the filter and the result of the last one.
NoListing == [n |-> 0, status |-> "", rows |-> <<>>]

\* list_economies, lines 194-208 and on: the status check, then
\* get_all_economies(status.lower() if status else None).
ListCommand(user, status) ==
    /\ Issue
    /\ IF status # "" /\ Lower(status) \notin {"approved", "pending", "rejected"}
       THEN /\ reply' = Reply("list", user, "", "InvalidStatus")
            /\ listing' = listing
       ELSE LET rows == GetAllEconomies(economies, Lower(status))
            IN  /\ listing' = [n |-> listing.n + 1, status |-> Lower(status), rows |-> rows]
                /\ reply' = Reply("list", user, "",
                                  IF rows = <<>> THEN "NoEconomies" ELSE "Listed")
    /\ UNCHANGED <<bcast, calc, req, economies, officers, transfers, audit, clock, ledger,
                   transferVars, approvals, wviews, tasks>>

----------------------------------------------------------------------------
(* cogs/broadcast.py: one broadcast ticket and its confirmation prompt.    *)

\* Ticket types offered by the broadcast panel, and what users type.
TicketTypes == {"all_economy", "approved"}
MessageArgs == {"m1", "m2"}

\* active_tickets without a ticket.  open: the channel is a key of
\* active_tickets; posting: on_message is between storing the message and
\* sending the prompt; prompts: the recipients of each ConfirmBroadcastView
\* posted; runs: the send_broadcast calls started; delivered is history: the
\* broadcast embeds each guild has received.
NoBroadcast ==
    [open |-> FALSE, type |-> "", officer_id |-> NoUser, message_content |-> "",
     awaiting_confirmation |-> FALSE, posting |-> FALSE, prompts |-> <<>>,
     runs |-> <<>>, delivered |-> [g \in Guilds |-> 0]]

broadcastUnchanged ==
    UNCHANGED <<listing, calc, req, economies, officers, transfers, audit, clock, ledger,
                transferVars, approvals, wviews, tasks, reply>>

\* create_ticket_button and create_ticket, lines 259-306 and 690-707.
CreateTicket(user, type) ==
    /\ Issue
    /\ ~bcast.open
    /\ bcast' = IF IsOfficerOrOwner(user)
                THEN [bcast EXCEPT !.open = TRUE, !.type = type, !.officer_id = user,
                                   !.message_content = "",
                                   !.awaiting_confirmation = FALSE]
                ELSE bcast
    /\ broadcastUnchanged

\* on_message, lines 356-375: a message typed in the ticket channel is
\* stored unless the ticket is awaiting confirmation.
TicketMessage(author, content) ==
    /\ Issue
    /\ bcast' = IF bcast.open /\ ~bcast.awaiting_confirmation
                THEN [bcast EXCEPT !.message_content = content,
                                   !.awaiting_confirmation = TRUE, !.posting = TRUE]
                ELSE bcast
    /\ broadcastUnchanged

\* on_message, lines 377-437: the recipients are read and the prompt is sent.
PromptPost ==
    /\ bcast.posting
    /\ LET rows == GetAllEconomies(economies,
                                   IF bcast.type = "all_economy" THEN "" ELSE bcast.type)
           recipients == [i \in 1..Len(rows) |-> rows[i].guild_id]
       IN  bcast' = [bcast EXCEPT !.posting = FALSE, !.prompts = Append(@, recipients)]
    /\ UNCHANGED issued
    /\ broadcastUnchanged

\* ConfirmBroadcastView.confirm, lines 718-741, up to the call of
\* send_broadcast: the ticket and owner checks, defer, the message edit.
BroadcastConfirm(p, user) ==
    /\ Issue
    /\ p \in 1..Len(bcast.prompts)
    /\ Len(bcast.runs) < MaxConfirms
    /\ bcast' = IF bcast.open /\ user = bcast.officer_id
                THEN [bcast EXCEPT !.runs = Append(@, [prompt |-> p, pc |-> "start", i |-> 1,
                                                      message_content |-> ""])]
                ELSE bcast
    /\ broadcastUnchanged

\* ConfirmBroadcastView.cancel, lines 746-771.
BroadcastCancel(p, user) ==
    /\ Issue
    /\ p \in 1..Len(bcast.prompts)
    /\ bcast' = IF bcast.open /\ user = bcast.officer_id
                THEN [bcast EXCEPT !.awaiting_confirmation = FALSE, !.message_content = ""]
                ELSE bcast
    /\ broadcastUnchanged

\* send_broadcast, lines 442-461: the ticket is looked up, its message read,
\* the status message sent.
SendStart(r) ==
    /\ r \in 1..Len(bcast.runs) /\ bcast.runs[r].pc = "start"
    /\ bcast' = IF bcast.open
                THEN [bcast EXCEPT !.runs[r].pc = "deliver",
                                   !.runs[r].message_content = bcast.message_content]
                ELSE [bcast EXCEPT !.runs[r].pc = "done"]
    /\ UNCHANGED issued
    /\ broadcastUnchanged

\* send_broadcast, lines 464-518: one turn of the loop over the recipients
\* (sent: a channel was found and the send did not raise).
SendDeliver(r, sent) ==
    /\ r \in 1..Len(bcast.runs) /\ bcast.runs[r].pc = "deliver"
    /\ LET recipients == bcast.prompts[bcast.runs[r].prompt]
           i == bcast.runs[r].i
       IN  /\ i <= Len(recipients)
           /\ bcast' = [bcast EXCEPT !.runs[r].i = i + 1,
                           !.delivered[recipients[i]] = IF sent THEN @ + 1 ELSE @]
    /\ UNCHANGED issued
    /\ broadcastUnchanged

\* send_broadcast, lines 520-561: the log, the result, and after 30 seconds
\* the channel and the ticket are deleted.
SendFinish(r) ==
    /\ r \in 1..Len(bcast.runs) /\ bcast.runs[r].pc = "deliver"
    /\ bcast.runs[r].i > Len(bcast.prompts[bcast.runs[r].prompt])
    /\ bcast' = [bcast EXCEPT !.runs[r].pc = "done", !.open = FALSE,
                              !.message_content = "", !.awaiting_confirmation = FALSE]
    /\ UNCHANGED issued
    /\ broadcastUnchanged

----------------------------------------------------------------------------
(* cogs/admin.py: /kick_economy.                                           *)

\* The for loop with break: the first approved row of that name; 0 if none.
RECURSIVE FindFirstByName(_, _, _)
FindFirstByName(rows, name, i) ==
    IF i > Len(rows) THEN 0
    ELSE IF Lower(rows[i].guild_name) = Lower(name) THEN i
    ELSE FindFirstByName(rows, name, i + 1)

\* kick_economy, lines 51-81: the permission check and the lookup.
KickFind(user, server_name) ==
    /\ Issue
    /\ LET rows == GetAllEconomies(economies, "approved")
           k == FindFirstByName(rows, server_name, 1)
       IN  IF ~IsOfficerOrOwner(user)
           THEN /\ reply' = Reply("kick", user, "", "Unauthorized")
                /\ tasks' = tasks
           ELSE IF k = 0
           THEN /\ reply' = Reply("kick", user, "", "NotFound")
                /\ tasks' = tasks
           ELSE /\ tasks' = Append(tasks, Task("kick", user, rows[k].guild_id, Zero, 0))
                /\ reply' = reply
    /\ UNCHANGED <<bcast, listing, calc, req, economies, officers, transfers, audit, clock, ledger, transferVars,
                   approvals, wviews>>

\* kick_economy, lines 83-98: remove_economy, log_action, the reply.
KickRemove(i) ==
    /\ i \in 1..Len(tasks) /\ tasks[i].kind = "kick"
    /\ LET t == tasks[i]
       IN  /\ economies' = RemoveEconomy(economies, t.guild)
           /\ audit' = LogAction(audit, "economy_kicked", t.user, t.guild)
           /\ reply' = Reply("kick", t.user, t.guild, "Kicked")
           /\ tasks' = Without(tasks, i)
    /\ UNCHANGED <<bcast, listing, calc, req, officers, transfers, clock, ledger, transferVars, approvals, wviews, issued>>

----------------------------------------------------------------------------
(* cogs/admin.py: /cleanup_transfers; cogs/database.py: cleanup_old_transfers. *)

\* A day passes: datetime.utcnow() reads one more.
DayPasses ==
    /\ clock < 2 + MaxDays
    /\ clock' = clock + 1
    /\ UNCHANGED <<bcast, listing, calc, req, economies, officers, transfers, audit, ledger, transferVars,
                   registryVars>>

\* The rows cleanup_old_transfers(days) leaves:
\* DELETE FROM transfers WHERE timestamp < utcnow() - timedelta(days).
RECURSIVE KeepRecent(_, _)
KeepRecent(rows, cutoff) ==
    IF rows = <<>> THEN <<>>
    ELSE IF Head(rows).timestamp < cutoff THEN KeepRecent(Tail(rows), cutoff)
    ELSE <<Head(rows)>> \o KeepRecent(Tail(rows), cutoff)

CleanupOldTransfers(rows, days, now) == KeepRecent(rows, now - days)

\* cleanup_transfers, lines 290-302: the permission check and defer().
CleanupCommand(user, days) ==
    /\ Issue
    /\ IF ~IsOfficerOrOwner(user)
       THEN /\ reply' = Reply("cleanup", user, "", "Unauthorized")
            /\ tasks' = tasks
       ELSE /\ tasks' = Append(tasks, Task("cleanup", user, "", Int2Rat(days), 0))
            /\ reply' = reply
    /\ UNCHANGED <<bcast, listing, calc, req, economies, officers, transfers, audit, clock, ledger, transferVars,
                   approvals, wviews>>

\* cleanup_transfers, lines 309-321: cleanup_old_transfers(days), the reply,
\* log_action.
CleanupDelete(i) ==
    /\ i \in 1..Len(tasks) /\ tasks[i].kind = "cleanup"
    /\ LET t == tasks[i]
       IN  /\ transfers' = CleanupOldTransfers(transfers, t.rate[1], clock)
           /\ audit' = LogAction(audit, "cleanup_transfers", t.user, "")
           /\ reply' = Reply("cleanup", t.user, "", "Cleaned")
           /\ tasks' = Without(tasks, i)
    /\ UNCHANGED <<bcast, listing, calc, req, economies, officers, clock, ledger, transferVars, approvals,
                   wviews, issued>>

----------------------------------------------------------------------------
(* The transfer saga on a registry of two approved economies.              *)

NoReply == Reply("none", NoUser, "", "none")

\* A row as optin and an approval by officer `by` leave it.
ApprovedRow(g, rate, applicant, applied, by, approved) ==
    [NewEconomyRow(g, GuildName(g), rate, applicant, applied) EXCEPT
        !.status = "approved", !.approved_at = approved, !.approved_by = by]

\* Both guilds enrolled and approved, Alpha at 10 and Beta at 5 per USD;
\* every account holds 3 in cash and 2 in the bank.
Init ==
    /\ economies = ("g1" :> ApprovedRow("g1", Int2Rat(10), "u1", 1, "u2", 1))
                 @@ ("g2" :> ApprovedRow("g2", Int2Rat(5), "u1", 2, "u2", 2))
    /\ officers = {"u2"}
    /\ transfers = <<>>
    /\ audit = <<>>
    /\ clock = 2
    /\ ledger = [a \in Guilds \X Users |-> [cash |-> Int2Rat(3), bank |-> Int2Rat(2)]]
    /\ cmd = IdleCmd
    /\ views = <<>>
    /\ cbs = <<>>
    /\ approvals = <<[guild_id |-> "g1", disabled |-> TRUE],
                     [guild_id |-> "g2", disabled |-> TRUE]>>
    /\ wviews = <<>>
    /\ tasks = <<>>
    /\ reply = NoReply
    /\ issued = 0
    /\ req = IdleReq
    /\ calc = IdleCalc
    /\ listing = NoListing
    /\ bcast = NoBroadcast

Next ==
    \/ \E t \in NameArgs, s \in NameArgs, a \in AmountArgs, w \in WalletArgs :
          TransferValidate("u1", t, s, a, w)
    \/ \E resp \in Responses : TransferCheckBalance(resp)
    \/ \E v \in 1..Len(views), u \in {"u1", "u2"} : ConfirmClick(v, u)
    \/ \E v \in 1..Len(views), u \in {"u1", "u2"} : CancelClick(v, u)
    \/ \E v \in 1..Len(views) : CancelStop(v)
    \/ \E v \in 1..Len(views) : ViewTimeout(v)
    \/ \E c \in 1..Len(cbs), resp \in Responses : CbCheck(c, resp)
    \/ \E c \in 1..Len(cbs), resp \in Responses : CbDebitRead(c, resp)
    \/ \E c \in 1..Len(cbs), resp \in Responses : CbDebitWrite(c, resp)
    \/ \E c \in 1..Len(cbs), resp \in Responses : CbCreditRead(c, resp)
    \/ \E c \in 1..Len(cbs), resp \in Responses : CbCreditWrite(c, resp)
    \/ \E c \in 1..Len(cbs), resp \in Responses : CbRollbackRead(c, resp)
    \/ \E c \in 1..Len(cbs), resp \in Responses : CbRollbackWrite(c, resp)
    \/ \E c \in 1..Len(cbs), logged \in BOOLEAN, audited \in BOOLEAN :
          CbComplete(c, logged, audited)

Spec == Init /\ [][Next]_vars

----------------------------------------------------------------------------
(* The saga, every ledger request answered, while an officer removes       *)
(* economies with /kick_economy.                                           *)

NextKick ==
    \/ \E t \in {"ALPHA", "beta"}, s \in {"ALPHA", "beta"} :
          TransferValidate("u1", t, s, Int2Rat(2), "cash")
    \/ TransferCheckBalance("ok")
    \/ \E v \in 1..Len(views) : ConfirmClick(v, "u1")
    \/ \E c \in 1..Len(cbs) : CbCheck(c, "ok")
    \/ \E c \in 1..Len(cbs) : CbDebitRead(c, "ok")
    \/ \E c \in 1..Len(cbs) : CbDebitWrite(c, "ok")
    \/ \E c \in 1..Len(cbs) : CbCreditRead(c, "ok")
    \/ \E c \in 1..Len(cbs) : CbCreditWrite(c, "ok")
    \/ \E c \in 1..Len(cbs) : CbComplete(c, TRUE, TRUE)
    \/ \E n \in {"ALPHA", "beta"} : KickFind("u2", n)
    \/ \E i \in 1..Len(tasks) : KickRemove(i)

SpecKick == Init /\ [][NextKick]_vars

----------------------------------------------------------------------------
(* The registry from empty tables: applications, reviews, removals and the *)
(* owner's officer management.                                             *)

InitRegistry ==
    /\ economies = <<>>
    /\ officers = {}
    /\ transfers = <<>>
    /\ audit = <<>>
    /\ clock = 0
    /\ ledger = [a \in Guilds \X Users |-> [cash |-> Int2Rat(3), bank |-> Int2Rat(2)]]
    /\ cmd = IdleCmd
    /\ views = <<>>
    /\ cbs = <<>>
    /\ approvals = <<>>
    /\ wviews = <<>>
    /\ tasks = <<>>
    /\ reply = NoReply
    /\ issued = 0
    /\ req = IdleReq
    /\ calc = IdleCalc
    /\ listing = NoListing
    /\ bcast = NoBroadcast

NextRegistry ==
    \/ \E a \in Users, u \in {"u2", Owner} : AddOfficerMessage(a, u)
    \/ \E a \in Users, u \in {"u2"} : RemoveOfficerMessage(a, u)
    \/ \E g \in Guilds, r \in RateArgs : OptinCheck(g, "u1", r)
    \/ \E i \in 1..Len(tasks), access \in BOOLEAN, posted \in BOOLEAN :
          OptinInsert(i, access, posted)
    \/ \E a \in 1..Len(approvals), u \in Users : ApproveClick(a, u)
    \/ \E a \in 1..Len(approvals), u \in Users : RejectClick(a, u)
    \/ \E i \in 1..Len(tasks) : ApproveUpdate(i)
    \/ \E i \in 1..Len(tasks) : RejectUpdate(i)
    \/ \E g \in Guilds : WithdrawCommand(g, "u1")
    \/ \E w \in 1..Len(wviews) : WithdrawClick(w, "u1")
    \/ \E w \in 1..Len(wviews) : WithdrawCancel(w, "u1")
    \/ \E i \in 1..Len(tasks) : WithdrawRemove(i)
    \/ \E u \in Users, n \in {"ALPHA", "beta"} : KickFind(u, n)
    \/ \E i \in 1..Len(tasks) : KickRemove(i)

SpecRegistry == InitRegistry /\ [][NextRegistry]_vars

----------------------------------------------------------------------------
(* The ledger client alone: GETs and PATCHes of u1's two accounts.         *)

PatchArgs ==
    {PatchBody(Some(Int2Rat(1)), None), PatchBody(None, Some(Int2Rat(4))),
     PatchBody(Some(Int2Rat(0)), Some(Int2Rat(0)))}

NextClient ==
    \/ \E g \in Guilds, session \in BOOLEAN :
          MakeRequest("GET", <<g, "u1">>, PatchBody(None, None), session)
    \/ \E g \in Guilds, body \in PatchArgs, session \in BOOLEAN :
          MakeRequest("PATCH", <<g, "u1">>, body, session)
    \/ RequestSend
    \/ \E status \in Statuses, header \in RetryAfterHeaders :
          RequestResponse(status, header)
    \/ RequestRetry
    \/ RequestReturn

\* The event loop resumes a coroutine whose sleep is over, and every request
\* sent is answered or fails.
SpecClient ==
    /\ Init
    /\ [][NextClient]_vars
    /\ WF_vars(RequestSend)
    /\ WF_vars(RequestRetry)
    /\ WF_vars(\E status \in Statuses, header \in RetryAfterHeaders :
                  RequestResponse(status, header))

----------------------------------------------------------------------------
(* The saga, every ledger request answered, and /cleanup_transfers over    *)
(* the days that follow.                                                   *)

NextCleanup ==
    \/ \E w \in {"cash", "Bank"} : TransferValidate("u1", "beta", "ALPHA", Int2Rat(2), w)
    \/ TransferCheckBalance("ok")
    \/ \E v \in 1..Len(views) : ConfirmClick(v, "u1")
    \/ \E c \in 1..Len(cbs) : CbCheck(c, "ok")
    \/ \E c \in 1..Len(cbs) : CbDebitRead(c, "ok")
    \/ \E c \in 1..Len(cbs) : CbDebitWrite(c, "ok")
    \/ \E c \in 1..Len(cbs) : CbCreditRead(c, "ok")
    \/ \E c \in 1..Len(cbs) : CbCreditWrite(c, "ok")
    \/ \E c \in 1..Len(cbs), logged \in BOOLEAN : CbComplete(c, logged, TRUE)
    \/ DayPasses
    \/ \E u \in {"u1", "u2"}, days \in {0, 1} : CleanupCommand(u, days)
    \/ \E i \in 1..Len(tasks) : CleanupDelete(i)

SpecCleanup == Init /\ [][NextCleanup]_vars

----------------------------------------------------------------------------
(* The conversion alone: an amount taken from one economy to another and   *)
(* back, over amounts and rates optin and transfer accept.                 *)

\* Amounts within [min_transfer_amount, max_transfer_amount].
CalcAmounts == {Int2Rat(1), Rat(3, 2), Int2Rat(2), Int2Rat(7), Int2Rat(100), Int2Rat(1000)}
\* Rates within [min_exchange_rate, max_exchange_rate].
CalcRates == {Rat(1, 100), Rat(5, 2), Int2Rat(3), Int2Rat(5), Int2Rat(10), Int2Rat(10000)}

InitConvert ==
    /\ economies = ("g1" :> ApprovedRow("g1", Int2Rat(10), "u1", 1, "u2", 1))
                 @@ ("g2" :> ApprovedRow("g2", Int2Rat(5), "u1", 2, "u2", 2))
    /\ officers = {"u2"}
    /\ transfers = <<>>
    /\ audit = <<>>
    /\ clock = 2
    /\ ledger = [a \in Guilds \X Users |-> [cash |-> Int2Rat(3), bank |-> Int2Rat(2)]]
    /\ cmd = IdleCmd
    /\ views = <<>>
    /\ cbs = <<>>
    /\ approvals = <<[guild_id |-> "g1", disabled |-> TRUE],
                     [guild_id |-> "g2", disabled |-> TRUE]>>
    /\ wviews = <<>>
    /\ tasks = <<>>
    /\ reply = NoReply
    /\ issued = 0
    /\ req = IdleReq
    /\ listing = NoListing
    /\ bcast = NoBroadcast
    /\ \E x \in CalcAmounts, rA \in CalcRates, rB \in CalcRates :
          calc = [IdleCalc EXCEPT !.pc = "in", !.x = x, !.rA = rA, !.rB = rB]

NextConvert ==
    \/ ConvertThere
    \/ ConvertBack

SpecConvert == InitConvert /\ [][NextConvert]_vars

----------------------------------------------------------------------------
(* /economy list over a registry that applications and reviews fill.       *)

InitList ==
    /\ economies = <<>>
    /\ officers = {"u2"}
    /\ transfers = <<>>
    /\ audit = <<>>
    /\ clock = 0
    /\ ledger = [a \in Guilds \X Users |-> [cash |-> Int2Rat(3), bank |-> Int2Rat(2)]]
    /\ cmd = IdleCmd
    /\ views = <<>>
    /\ cbs = <<>>
    /\ approvals = <<>>
    /\ wviews = <<>>
    /\ tasks = <<>>
    /\ reply = NoReply
    /\ issued = 0
    /\ req = IdleReq
    /\ calc = IdleCalc
    /\ listing = NoListing
    /\ bcast = NoBroadcast

NextList ==
    \/ \E g \in Guilds, r \in {Int2Rat(5), Int2Rat(10)} : OptinCheck(g, "u1", r)
    \/ \E i \in 1..Len(tasks), access \in BOOLEAN, posted \in BOOLEAN :
          OptinInsert(i, access, posted)
    \/ \E a \in 1..Len(approvals) : ApproveClick(a, "u2")
    \/ \E a \in 1..Len(approvals) : RejectClick(a, "u2")
    \/ \E i \in 1..Len(tasks) : ApproveUpdate(i)
    \/ \E i \in 1..Len(tasks) : RejectUpdate(i)
    \/ \E u \in {"u1"}, st \in StatusArgs : ListCommand(u, st)

SpecList == InitList /\ [][NextList]_vars

----------------------------------------------------------------------------
(* Two /transfer prompts of one user, one on cash and one on the bank,     *)
(* every ledger request answered.                                          *)

NextWallets ==
    \/ \E w \in {"cash", "Bank"} : TransferValidate("u1", "beta", "ALPHA", Int2Rat(2), w)
    \/ TransferCheckBalance("ok")
    \/ TransferReturn
    \/ \E v \in 1..Len(views) : ConfirmClick(v, "u1")
    \/ \E c \in 1..Len(cbs) : CbCheck(c, "ok")
    \/ \E c \in 1..Len(cbs) : CbDebitRead(c, "ok")
    \/ \E c \in 1..Len(cbs) : CbDebitWrite(c, "ok")
    \/ \E c \in 1..Len(cbs) : CbCreditRead(c, "ok")
    \/ \E c \in 1..Len(cbs) : CbCreditWrite(c, "ok")
    \/ \E c \in 1..Len(cbs) : CbComplete(c, TRUE, TRUE)

SpecWallets == Init /\ [][NextWallets]_vars

----------------------------------------------------------------------------
(* Officer management alone: direct messages and the context menu, from    *)
(* the owner and from two other users.                                     *)

NextOfficers ==
    \/ \E a \in Users, u \in {"u1", "u2"} : AddOfficerMessage(a, u)
    \/ \E a \in Users, u \in {"u1", "u2"} : RemoveOfficerMessage(a, u)
    \/ \E a \in Users : IgnoredMessage(a)
    \/ \E a \in Users, u \in {"u1", "u2"} : AddOfficerContext(a, u)

SpecOfficers == InitRegistry /\ [][NextOfficers]_vars

----------------------------------------------------------------------------
(* One broadcast ticket over the registry of two approved economies.       *)

NextBroadcast ==
    \/ \E u \in {"u1", "u2"}, ty \in TicketTypes : CreateTicket(u, ty)
    \/ \E m \in MessageArgs : TicketMessage("u2", m)
    \/ PromptPost
    \/ \E p \in 1..Len(bcast.prompts), u \in {"u1", "u2"} : BroadcastConfirm(p, u)
    \/ \E p \in 1..Len(bcast.prompts), u \in {"u1", "u2"} : BroadcastCancel(p, u)
    \/ \E r \in 1..Len(bcast.runs) : SendStart(r)
    \/ \E r \in 1..Len(bcast.runs), sent \in BOOLEAN : SendDeliver(r, sent)
    \/ \E r \in 1..Len(bcast.runs) : SendFinish(r)

SpecBroadcast == Init /\ [][NextBroadcast]_vars

----------------------------------------------------------------------------
(* Properties of the transfer saga (specification Spec).                   *)

\* C1: for one confirmation prompt (one ConfirmTransferView) at most one
\* Debit and at most one Credit are ever issued, also when Confirm is
\* activated a second time while the first callback awaits ledger calls.
OneSagaPerPrompt ==
    \A v \in 1..Len(views) : views[v].debits <= 1 /\ views[v].credits <= 1

\* C2: modify_user_balance operations on one account are serialized: no two
\* callbacks are between the read and the write of a modify_user_balance on
\* the same account at the same time.
SerializedPerAccount ==
    \A c1 \in 1..Len(cbs), c2 \in 1..Len(cbs) :
        LET Writing(c) == cbs[c].pc \in {"debit_write", "credit_write", "rb_write"}
            Account(c) == IF cbs[c].pc = "credit_write" THEN TargetAccount(c)
                          ELSE SourceAccount(c)
        IN  (c1 # c2 /\ Writing(c1) /\ Writing(c2)) => Account(c1) # Account(c2)

\* C3: when the credit failed after a successful debit and the compensating
\* modify_user_balance failed too, the callback reports CompensationFailed,
\* never "Transfer rolled back".
CompensationFailureReported ==
    \A c \in 1..Len(cbs) :
        (cbs[c].pc = "done" /\ cbs[c].debited /\ cbs[c].credit_failed
            /\ cbs[c].rb_issued /\ ~cbs[c].rb_ok)
        => cbs[c].outcome = "CompensationFailed"

\* C4: a callback whose debit succeeded and whose credit failed, with no
\* other writer on its source account, reports "rolled back" (never
\* Complete) and leaves the source balance at its pre-transfer value.
RollbackCorrect ==
    \A c \in 1..Len(cbs) :
        (cbs[c].pc = "done" /\ cbs[c].debited /\ cbs[c].credit_failed
            /\ ~cbs[c].disturbed)
        => (cbs[c].outcome = "RolledBack" /\ cbs[c].post = cbs[c].pre)

\* C5: every callback that ends in Complete leaves the source wallet at its
\* balance before the saga minus amount, and every transfers row carries
\* amount_target = amount_source / source rate * target rate.
Conservation ==
    /\ \A c \in 1..Len(cbs) :
          cbs[c].outcome = "Complete" =>
            LET vw == views[cbs[c].view]
            IN  cbs[c].post[vw.wallet_type]
                    = RSub(cbs[c].pre[vw.wallet_type], vw.amount)
    /\ \A i \in 1..Len(transfers) :
          \E v \in 1..Len(views) :
            /\ transfers[i].from_guild_id = views[v].source_economy.guild_id
            /\ transfers[i].to_guild_id = views[v].target_economy.guild_id
            /\ transfers[i].amount_target
                 = Convert(transfers[i].amount_source,
                           views[v].source_economy.rate_usd,
                           views[v].target_economy.rate_usd)

\* C6: a callback that has applied its debit returns only after the credit
\* was applied or the compensating call was issued.
DebitResolvedBeforeReturn ==
    \A c \in 1..Len(cbs) :
        (cbs[c].pc = "done" /\ cbs[c].debited)
        => (cbs[c].credited \/ cbs[c].rb_issued)

\* C8: a request rejected at the Validate stage has issued no ledger call:
\* none by the command, and no prompt exists whose callbacks could issue one.
FailFastValidation ==
    cmd.outcome \in ValidationErrors
    => (cmd.calls = 0 /\ views = <<>> /\ cbs = <<>>)

\* A request has been rejected for its amount without a ledger call.
FailFastValidationWitness ==
    cmd.pc = "done" /\ cmd.outcome = "InvalidAmount" /\ cmd.calls = 0

----------------------------------------------------------------------------
(* Properties of the ledger client (specification SpecClient).             *)

\* C7: under sustained throttling a request still terminates: every request
\* that has been sent eventually returns to its caller.
RequestTerminates == (req.pc = "sent") ~> (req.pc = "done")

----------------------------------------------------------------------------
(* Properties of the saga next to /kick_economy (specification SpecKick).  *)

\* C9: a Debit or a Credit is issued only while the prompt's source and
\* target economies are both in the registry with status approved.
DebitCreditOnlyWhileApproved ==
    [][\A v \in 1..Len(views) :
         (views'[v].debits > views[v].debits \/ views'[v].credits > views[v].credits)
         => \A g \in {views[v].source_economy.guild_id,
                       views[v].target_economy.guild_id} :
               g \in DOMAIN economies /\ economies[g].status = "approved"]_vars

----------------------------------------------------------------------------
(* Properties of the registry (specification SpecRegistry).                *)

\* C10: a row whose status is approved or rejected keeps that status for as
\* long as the row exists.
StatusTerminal ==
    [][\A g \in DOMAIN economies :
         (economies[g].status \in {"approved", "rejected"} /\ g \in DOMAIN economies')
         => economies'[g].status = economies[g].status]_vars

\* C11: an approve on a row that is already approved fails with
\* InvalidTransition, and the row's status is approved afterwards.
SecondApproveFails ==
    [][\A i \in 1..Len(tasks) :
         (/\ tasks[i].kind = "approve"
          /\ tasks' = Without(tasks, i)
          /\ tasks[i].guild \in DOMAIN economies
          /\ economies[tasks[i].guild].status = "approved")
         => (/\ reply'.outcome = "InvalidTransition"
             /\ tasks[i].guild \in DOMAIN economies'
             /\ economies'[tasks[i].guild].status = "approved")]_vars

\* C12: a removal (withdrawal or kick) of a guild that has no row is
\* reported as a failure, not as a successful removal.
MissingIdReported ==
    [][\A i \in 1..Len(tasks) :
         (/\ tasks[i].kind \in {"withdraw", "kick"}
          /\ tasks' = Without(tasks, i)
          /\ tasks[i].guild \notin DOMAIN economies)
         => reply'.outcome \notin {"Withdrawn", "Kicked"}]_vars

\* C13: an application that reaches add_economy for a guild without a row
\* creates a pending row with its rate and applicant; one that reaches it
\* for a guild that has a row (two applications racing) fails and leaves
\* the table as it was.
RegisterKeepsExisting ==
    [][\A i \in 1..Len(tasks) :
         (tasks[i].kind = "optin" /\ tasks' = Without(tasks, i))
         => IF tasks[i].guild \in DOMAIN economies
            THEN economies' = economies /\ reply'.outcome # "Submitted"
            ELSE \/ economies' = economies /\ reply'.outcome # "Submitted"
                 \/ /\ DOMAIN economies' = DOMAIN economies \cup {tasks[i].guild}
                    /\ \A g \in DOMAIN economies : economies'[g] = economies[g]
                    /\ economies'[tasks[i].guild].status = "pending"
                    /\ economies'[tasks[i].guild].rate_usd = tasks[i].rate
                    /\ economies'[tasks[i].guild].applied_by = tasks[i].user
                    /\ reply'.outcome = "Submitted"]_vars

\* The later of two racing applications has been turned away.
RegisterKeepsExistingWitness ==
    /\ reply.kind = "optin" /\ reply.outcome = "SubmitFailed"
    /\ reply.guild \in DOMAIN economies
    /\ economies[reply.guild].status = "pending"

\* C14: approve, reject and kick are refused exactly for the users who are
\* neither the owner nor in the officer set: nobody who is authorized is
\* turned away, and nobody else gets a handler started.
OfficerOnlyExactlyAuthorized ==
    [][/\ (reply' # reply /\ reply'.outcome = "Unauthorized")
          => ~(reply'.user = Owner \/ reply'.user \in officers)
       /\ (/\ Len(tasks') = Len(tasks) + 1
           /\ tasks'[Len(tasks')].kind \in {"approve", "reject", "kick"})
          => (tasks'[Len(tasks')].user = Owner
              \/ tasks'[Len(tasks')].user \in officers)]_vars

\* C15: the owner's id is never a row of approved_officers.
OwnerNeverStored == Owner \notin officers

\* C16: a transfers row, once written, is never changed or deleted.
TransfersAppendOnly ==
    [][/\ Len(transfers') >= Len(transfers)
       /\ \A i \in 1..Len(transfers) : transfers'[i] = transfers[i]]_vars

\* C17: the transfers table holds one row for every callback that ended in
\* Complete and none for any other, each row with exchange_rate = target
\* rate / source rate; a callback that applied both the debit and the
\* credit ends in Complete.
RecordIffComplete ==
    /\ Len(transfers) = Cardinality({c \in 1..Len(cbs) : cbs[c].outcome = "Complete"})
    /\ \A c \in 1..Len(cbs) :
          (cbs[c].pc = "done" /\ cbs[c].debited /\ cbs[c].credited)
          => cbs[c].outcome = "Complete"
    /\ \A i \in 1..Len(transfers) :
          \E v \in 1..Len(views) :
            transfers[i].exchange_rate
              = RDiv(views[v].target_economy.rate_usd, views[v].source_economy.rate_usd)

\* C18: a callback that ends at its debit step (the debit's
\* modify_user_balance returned None or raised; no credit and no rollback
\* followed) has written nothing: its debit was not applied and the source
\* balance is the pre-transfer one.
DebitFailureWritesNothing ==
    \A c \in 1..Len(cbs) :
        (/\ cbs[c].pc = "done" /\ cbs[c].outcome \in {"DebitFailed", "Error"}
         /\ ~cbs[c].credit_failed /\ ~cbs[c].credited /\ ~cbs[c].rb_issued)
        => (~cbs[c].debited /\ cbs[c].post = cbs[c].pre)

\* C19: a balance check whose GET did not raise ends in InsufficientFunds
\* exactly when the source account's chosen wallet holds strictly less than
\* amount, and it writes nothing to the ledger; this for the command's
\* check and for the callback's double-check.
InsufficientExactlyWhenShort ==
    [][/\ (cmd.pc = "check" /\ cmd'.pc = "done" /\ cmd'.outcome # "Error")
          => /\ ledger' = ledger
             /\ (cmd'.outcome = "InsufficientFunds")
                  <=> RLess(ledger[<<cmd.source_economy.guild_id, cmd.user>>][cmd.wallet_type],
                            cmd.amount)
       /\ \A c \in 1..Len(cbs) :
            (cbs[c].pc = "check" /\ cbs'[c].pc # "check" /\ cbs'[c].outcome # "Crashed")
            => /\ ledger' = ledger
               /\ (cbs'[c].outcome = "InsufficientFunds")
                    <=> RLess(ledger[SourceAccount(c)][views[cbs[c].view].wallet_type],
                              views[cbs[c].view].amount)]_vars

\* C20: modify_user_balance computes new = current + change for the wallet
\* it was given and leaves the other wallet as read; when cash or bank would
\* be negative it returns without a PATCH; otherwise its one PATCH carries
\* the computed values, and the read itself writes nothing.
ModifyBalanceContract ==
    [][\A c \in 1..Len(cbs) :
         LET vw == views[cbs[c].view]
             pc == cbs[c].pc
             acct == IF pc \in {"credit_read", "credit_write"} THEN TargetAccount(c)
                     ELSE SourceAccount(c)
             change == IF pc = "debit_read" THEN RNeg(vw.amount)
                       ELSE IF pc = "credit_read" THEN vw.target_amount
                       ELSE vw.amount
             cur == ledger[acct]
             cash == IF vw.wallet_type = "cash" THEN RAdd(cur.cash, change) ELSE cur.cash
             bank == IF vw.wallet_type = "cash" THEN cur.bank ELSE RAdd(cur.bank, change)
             write == CASE pc = "debit_read" -> "debit_write"
                        [] pc = "credit_read" -> "credit_write"
                        [] OTHER -> "rb_write"
         IN  /\ (pc \in {"debit_read", "credit_read", "rb_read"} /\ cbs'[c].pc # pc)
                => /\ ledger' = ledger
                   /\ (RLess(cash, Zero) \/ RLess(bank, Zero)) => cbs'[c].pc # write
                   /\ cbs'[c].pc = write
                        => cbs'[c].new = [cash |-> cash, bank |-> bank]
             /\ (pc \in {"debit_write", "credit_write", "rb_write"} /\ cbs'[c].pc # pc)
                => /\ ledger'[acct] \in {ledger[acct], cbs[c].new}
                   /\ \A a \in DOMAIN ledger \ {acct} : ledger'[a] = ledger[a]]_vars

\* A debit that would leave the wallet negative has been refused without a
\* PATCH, after another callback's debit was written.
ModifyBalanceContractWitness ==
    \E c \in 1..Len(cbs) :
        LET vw == views[cbs[c].view]
        IN  /\ cbs[c].outcome = "DebitFailed" /\ ~cbs[c].debited
            /\ RLess(RSub(ledger[SourceAccount(c)][vw.wallet_type], vw.amount), Zero)
            /\ ledger[SourceAccount(c)][vw.wallet_type]
                 = RSub(cbs[c].pre[vw.wallet_type], vw.amount)

----------------------------------------------------------------------------
(* Further properties of the ledger client (specification SpecClient).     *)

\* C21: a 404 or 403 response ends the call at once with None: no backoff,
\* no recursive call, nothing sent for it afterwards.
NotFoundForbiddenTerminal ==
    [][/\ (req.pc = "sent" /\ req'.pc # "sent" /\ req'.status \in {"404", "403"})
          => (/\ req'.pc = "done" /\ req'.result = "None"
              /\ req'.resends = req.resends /\ ledger' = ledger)
       /\ req.status \in {"404", "403"} => req'.pc \in {"done", "idle"}]_vars

\* A first request answered 404 has returned None.
NotFoundForbiddenTerminalWitness ==
    req.pc = "done" /\ req.status = "404" /\ req.result = "None" /\ req.resends = 0

\* C22: a request goes out only at the end of an api_delay sleep, the
\* re-sends after a 429 included.
DelayBeforeEverySend ==
    [][(req'.pc = "sent" /\ req.pc # "sent") => req.pc = "delay"]_vars

\* A re-send after a 429 has gone out.
DelayBeforeEverySendWitness ==
    req.pc = "sent" /\ req.resends > 0 /\ req.status = "429"

----------------------------------------------------------------------------
(* Further properties of the confirm saga (specification Spec).            *)

\* C23: a callback issues the rollback's modify_user_balance, or stands
\* before it, only when its own debit succeeded and its own credit failed;
\* never after a failed debit or a successful credit.
CompensateOnlyAfterFailedCredit ==
    \A c \in 1..Len(cbs) :
        (cbs[c].rb_issued \/ cbs[c].pc \in {"rb_read", "rb_write"})
            => (cbs[c].debited /\ cbs[c].credit_failed /\ ~cbs[c].credited)

\* A rollback has been issued.
CompensateOnlyAfterFailedCreditWitness ==
    \E c \in 1..Len(cbs) : cbs[c].rb_issued /\ cbs[c].debited /\ cbs[c].credit_failed

\* C24: when log_transfer or log_action fails after the debit and the credit
\* succeeded, the callback still ends with the success message, the ledger
\* is what it was after the credit, and no rollback is issued.
LogFailureKeepsTransfer ==
    [][\A c \in 1..Len(cbs) :
         (cbs[c].pc = "log" /\ cbs'[c].pc = "done"
            /\ (transfers' = transfers \/ audit' = audit))
         => (/\ cbs[c].debited /\ cbs[c].credited
             /\ cbs'[c].outcome = "Complete"
             /\ ledger' = ledger
             /\ ~cbs'[c].rb_issued
             /\ views'[cbs[c].view].rollbacks = views[cbs[c].view].rollbacks)]_vars

\* A saga has reported success although neither table got its row.
LogFailureKeepsTransferWitness ==
    /\ transfers = <<>> /\ audit = <<>>
    /\ \E c \in 1..Len(cbs) : cbs[c].outcome = "Complete" /\ cbs[c].credited

----------------------------------------------------------------------------
(* Further properties of the registry (specification SpecRegistry).        *)

\* C25: a pending or rejected row has neither approved_by nor approved_at,
\* an approved row has both.
ApproverOnlyOnApproval ==
    \A g \in DOMAIN economies :
        IF economies[g].status = "approved"
        THEN economies[g].approved_by # NoUser /\ economies[g].approved_at # 0
        ELSE economies[g].approved_by = NoUser /\ economies[g].approved_at = 0

\* C26: every row of the economies table has a rate_usd above zero, within
\* the configured bounds, and so has every application on its way to the
\* table.
RatePositive ==
    /\ \A g \in DOMAIN economies :
          /\ RLess(Zero, economies[g].rate_usd)
          /\ RLeq(MinExchangeRate, economies[g].rate_usd)
          /\ RLeq(economies[g].rate_usd, Int2Rat(MaxExchangeRate))
    /\ \A i \in 1..Len(tasks) : tasks[i].kind = "optin" => RLess(Zero, tasks[i].rate)

\* One application is in the table and a later one was turned away for its
\* rate.
RatePositiveWitness ==
    /\ \E g \in DOMAIN economies : economies[g].status = "pending"
    /\ reply.kind = "optin" /\ reply.outcome = "InvalidRate"

----------------------------------------------------------------------------
(* The conversion as the saga uses it (specification Spec).                *)

\* C27: the prompt's target amount is amount / rateSource * rateTarget; the
\* debit takes the amount from the source wallet, the credit adds the target
\* amount to the target wallet, and the transfers row carries both amounts
\* and the rate rateTarget / rateSource.  With the rates 10 and 5, 100
\* becomes 50 at the rate 1/2.
PivotConversion ==
    [][/\ Convert(Int2Rat(100), Int2Rat(10), Int2Rat(5)) = Int2Rat(50)
       /\ RDiv(Int2Rat(5), Int2Rat(10)) = Rat(1, 2)
       /\ \A v \in 1..Len(views') :
            LET a == views'[v].amount
                rs == views'[v].source_economy.rate_usd
                rt == views'[v].target_economy.rate_usd
            IN  /\ rs[1] > 0 /\ rt[1] > 0
                /\ views'[v].target_amount = Rat(a[1] * rs[2] * rt[1], a[2] * rs[1] * rt[2])
       /\ \A c \in 1..Len(cbs) :
            LET vw == views[cbs[c].view]
                w == vw.wallet_type
            IN  /\ (cbs[c].pc = "debit_read" /\ cbs'[c].pc = "debit_write")
                     => cbs'[c].new[w] = RSub(ledger[SourceAccount(c)][w], vw.amount)
                /\ (cbs[c].pc = "credit_read" /\ cbs'[c].pc = "credit_write")
                     => cbs'[c].new[w] = RAdd(ledger[TargetAccount(c)][w], vw.target_amount)
                /\ (cbs[c].pc = "credit_write" /\ cbs'[c].credited)
                     => ledger'[TargetAccount(c)][w] = cbs[c].new[w]
       /\ \A i \in 1..Len(transfers') :
            \E v \in 1..Len(views) :
                LET rs == views[v].source_economy.rate_usd
                    rt == views[v].target_economy.rate_usd
                IN  /\ transfers'[i].amount_source = views[v].amount
                    /\ transfers'[i].amount_target = views[v].target_amount
                    /\ transfers'[i].exchange_rate = Rat(rt[1] * rs[2], rt[2] * rs[1])]_vars

\* 2 in cash went from Alpha (rate 10) to Beta (rate 5): 1 credited, logged
\* at the rate 1/2.
PivotConversionWitness ==
    \E i \in 1..Len(transfers) :
        /\ transfers[i].amount_source = Int2Rat(2)
        /\ transfers[i].amount_target = Int2Rat(1)
        /\ transfers[i].exchange_rate = Rat(1, 2)
        /\ transfers[i].wallet_type = "cash"
        /\ ledger[<<"g2", "u1">>].cash = Int2Rat(4)

----------------------------------------------------------------------------
(* The conversion there and back (specification SpecConvert).              *)

----------------------------------------------------------------------------
(* Cancel and the acting user (specification Spec).                        *)

\* C29: once Cancel has been acknowledged on a prompt whose Confirm has
\* started no callback, no Confirm callback is ever started for it, and no
\* debit is issued and no row logged for it.
CancelBeforeDebitFinal ==
    [][\A v \in 1..Len(views) :
         (views[v].cancel_acked /\ \A c \in 1..Len(cbs) : cbs[c].view # v)
         => (/\ \A c \in 1..Len(cbs') : cbs'[c].view # v
             /\ views'[v].debits = 0
             /\ transfers' = transfers)]_vars

\* C30: the user who ran /transfer is no officer; every confirm callback
\* and every acknowledged Cancel is that user's; a press by anyone else
\* changes nothing but the refusal it is answered with; and the ledger
\* changes only on that user's accounts in the source and target economies.
BoundToActingUser ==
    [][/\ \A v \in 1..Len(views') :
            /\ ~IsOfficer(officers, views'[v].user_id)
            /\ views'[v].cancel_acked => views'[v].cancelled_by = views'[v].user_id
       /\ \A c \in 1..Len(cbs') : cbs'[c].user = views'[cbs'[c].view].user_id
       /\ \A v \in 1..Len(views) :
            (views'[v].refused /\ ~views[v].refused)
            => (/\ cbs' = cbs /\ ledger' = ledger /\ transfers' = transfers
                /\ views' = [views EXCEPT ![v].refused = TRUE])
       /\ \A acct \in DOMAIN ledger :
            ledger'[acct] # ledger[acct]
            => \E v \in 1..Len(views) :
                 /\ acct[2] = views[v].user_id
                 /\ acct[1] \in {views[v].source_economy.guild_id,
                                 views[v].target_economy.guild_id}]_vars

\* Another user's press was turned away, and the prompt's owner, who is no
\* officer, has been debited and credited.
BoundToActingUserWitness ==
    \E c \in 1..Len(cbs) :
        /\ views[cbs[c].view].refused
        /\ cbs[c].debited /\ cbs[c].credited
        /\ cbs[c].user \notin officers

----------------------------------------------------------------------------
(* /economy list (specification SpecList).                                 *)

----------------------------------------------------------------------------
(* Throttling (specification SpecClient).                                  *)

\* C32: a 429 response is followed by a wait of the Retry-After duration and
\* a re-send of the same method, account and payload, never by a failure
\* handed to the caller; a 200 after any number of 429s returns its data.
ThrottlingInvisible ==
    [][/\ (req.pc = "sent" /\ req'.pc # "sent" /\ req'.status = "429")
          => (req'.pc = "backoff" /\ req'.retry_after >= 0)
       /\ (req.pc = "backoff" /\ req'.pc # "backoff")
          => (/\ req'.pc = "delay"
              /\ req'.method = req.method /\ req'.account = req.account
              /\ req'.json_data = req.json_data)
       /\ (req.pc = "sent" /\ req'.pc # "sent" /\ req'.status = "200")
          => (req'.pc = "done" /\ req'.result = "data")]_vars

----------------------------------------------------------------------------
(* The order of one run's ledger calls (specification Spec).               *)

\* C33: a callback has one ledger call in progress at a time and makes them
\* in the order check, debit read, debit write, credit read, credit write,
\* and after a failed credit rollback read, rollback write; the ledger is
\* written only by a callback standing at one of its writes, on the account
\* that write is for.
LedgerCallsSequential ==
    [][/\ \A c \in 1..Len(cbs) :
            cbs'[c].pc # cbs[c].pc =>
              cbs'[c].pc \in
                CASE cbs[c].pc = "check" -> {"debit_read", "done"}
                  [] cbs[c].pc = "debit_read" -> {"debit_write", "done"}
                  [] cbs[c].pc = "debit_write" -> {"credit_read", "done"}
                  [] cbs[c].pc = "credit_read" -> {"credit_write", "rb_read", "done"}
                  [] cbs[c].pc = "credit_write" -> {"log", "rb_read", "done"}
                  [] cbs[c].pc = "rb_read" -> {"rb_write", "done"}
                  [] cbs[c].pc = "rb_write" -> {"done"}
                  [] cbs[c].pc = "log" -> {"done"}
                  [] OTHER -> {}
       /\ \A c \in 1..Len(cbs), d \in 1..Len(cbs) :
            (cbs'[c].pc # cbs[c].pc /\ cbs'[d].pc # cbs[d].pc) => c = d
       /\ \A c \in 1..Len(cbs') : c > Len(cbs) => cbs'[c].pc = "check"
       /\ \A acct \in DOMAIN ledger :
            ledger'[acct] # ledger[acct] =>
              \E c \in 1..Len(cbs) :
                /\ cbs'[c].pc # cbs[c].pc
                /\ \/ cbs[c].pc \in {"debit_write", "rb_write"} /\ acct = SourceAccount(c)
                   \/ cbs[c].pc = "credit_write" /\ acct = TargetAccount(c)]_vars

\* A run has been through every call, the rollback's write included.
LedgerCallsSequentialWitness ==
    \E c \in 1..Len(cbs) :
        cbs[c].pc = "done" /\ cbs[c].debited /\ cbs[c].credit_failed /\ cbs[c].rb_ok

----------------------------------------------------------------------------
(* modify_user_balance and the wallet it was not asked to change           *)
(* (specification SpecWallets).                                            *)

\* C34: the PATCH of a modify_user_balance called with a change for one
\* wallet leaves the account's other wallet as it was just before the PATCH.
OtherWalletUntouched ==
    [][\A c \in 1..Len(cbs) :
         (cbs[c].pc \in {"debit_write", "credit_write"} /\ cbs'[c].pc # cbs[c].pc)
         => LET acct == IF cbs[c].pc = "debit_write" THEN SourceAccount(c)
                        ELSE TargetAccount(c)
                other == IF views[cbs[c].view].wallet_type = "cash" THEN "bank" ELSE "cash"
            IN  ledger'[acct][other] = ledger[acct][other]]_vars

----------------------------------------------------------------------------
(* What modify_user_balance writes (specification Spec).                   *)

\* C35: the balance a callback is about to PATCH has a cash value and a
\* bank value of zero or more, and so has every account of the ledger.
NeverWritesNegative ==
    /\ \A c \in 1..Len(cbs) :
          cbs[c].pc \in {"debit_write", "credit_write", "rb_write"}
          => (RLeq(Zero, cbs[c].new.cash) /\ RLeq(Zero, cbs[c].new.bank))
    /\ \A acct \in DOMAIN ledger :
          RLeq(Zero, ledger[acct].cash) /\ RLeq(Zero, ledger[acct].bank)

\* Two runs of one prompt: the first has debited, the second passed the
\* balance check before that and was refused at its debit, which would have
\* gone below zero.
NeverWritesNegativeWitness ==
    \E c \in 1..Len(cbs), d \in 1..Len(cbs) :
        /\ c # d /\ cbs[c].view = cbs[d].view
        /\ cbs[c].debited
        /\ cbs[d].outcome = "DebitFailed"
        /\ RLess(ledger[SourceAccount(d)][views[cbs[d].view].wallet_type],
                 views[cbs[d].view].amount)

----------------------------------------------------------------------------
(* One target amount per prompt (specification Spec).                      *)

\* C36: the prompt's target amount is computed when the prompt is created,
\* from the two rates read then, and never changes; the credit's PATCH
\* raises the target wallet by that amount, and the transfers row of the
\* run carries it as amount_target.
OneTargetAmount ==
    [][/\ \A v \in 1..Len(views') :
            IF v > Len(views)
            THEN views'[v].target_amount =
                   Convert(cmd.amount, economies[cmd.source_economy.guild_id].rate_usd,
                           economies[cmd.target_economy.guild_id].rate_usd)
            ELSE views'[v].target_amount = views[v].target_amount
       /\ \A c \in 1..Len(cbs) :
            LET vw == views[cbs[c].view]
                w == vw.wallet_type
            IN  /\ (cbs[c].pc = "credit_read" /\ cbs'[c].pc = "credit_write")
                     => RSub(cbs'[c].new[w], ledger[TargetAccount(c)][w]) = vw.target_amount
                /\ (cbs[c].pc = "credit_write" /\ cbs'[c].credited)
                     => RSub(ledger'[TargetAccount(c)][w], ledger[TargetAccount(c)][w])
                          = vw.target_amount
                /\ (cbs[c].pc = "log" /\ cbs'[c].outcome = "Complete"
                       /\ Len(transfers') = Len(transfers) + 1)
                     => transfers'[Len(transfers')].amount_target = vw.target_amount]_vars

----------------------------------------------------------------------------
(* Cancel next to a running confirm (specification Spec).                  *)

\* C37: on a prompt whose Cancel has been acknowledged with "Transfer
\* cancelled", no callback has written or goes on to write to the ledger.
CancelAckMeansNoWrite ==
    \A c \in 1..Len(cbs) :
        views[cbs[c].view].cancel_acked
        => (/\ ~cbs[c].debited /\ ~cbs[c].credited /\ ~cbs[c].rb_ok
            /\ cbs[c].pc \notin {"debit_write", "credit_read", "credit_write",
                                  "rb_read", "rb_write", "log"})

----------------------------------------------------------------------------
(* Officer management (specification SpecOfficers).                        *)

\* C38: "remove officer" for a user who is not an officer is answered as a
\* failure and writes no audit row; "add officer" for a user who is one
\* already is answered as a failure and leaves the set as it is.
OfficerNoOpsReported ==
    [][(issued' # issued /\ (reply' # reply \/ audit' # audit \/ officers' # officers))
         => /\ (reply'.kind = "remove_officer" /\ reply'.guild \notin officers)
                => (reply'.outcome = "NotOfficer" /\ audit' = audit
                    /\ officers' = officers)
            /\ (reply'.kind \in {"add_officer", "add_officer_context"}
                  /\ reply'.user = Owner /\ reply'.guild \in officers)
                => (reply'.outcome = "AlreadyOfficer" /\ audit' = audit
                    /\ officers' = officers)]_vars

\* C39: the officer set changes only in a step of the owner's: an add or
\* remove message or the context menu, invoked by the owner.
OnlyOwnerChangesOfficers ==
    [][officers' # officers
         => (/\ issued' = issued + 1
             /\ reply'.user = Owner
             /\ reply'.kind \in {"add_officer", "remove_officer", "add_officer_context"}
             /\ reply'.outcome \in {"Added", "Removed"})]_vars

\* There is an officer, and a user who is not the owner has just been
\* refused the context menu.
OnlyOwnerChangesOfficersWitness ==
    /\ officers # {}
    /\ reply.kind = "add_officer_context" /\ reply.user # Owner
    /\ reply.outcome = "OwnerOnly" /\ reply.guild \notin officers

----------------------------------------------------------------------------
(* Broadcast tickets (specification SpecBroadcast).                        *)

\* C40: a prompt starts at most one send_broadcast, no guild receives the
\* ticket's message more than once, and while the ticket is awaiting
\* confirmation its stored message is not replaced.
BroadcastAtMostOnce ==
    [][/\ \A p \in 1..Len(bcast'.prompts) :
            Cardinality({r \in 1..Len(bcast'.runs) : bcast'.runs[r].prompt = p}) <= 1
       /\ \A g \in Guilds : bcast'.delivered[g] <= 1
       /\ (bcast.awaiting_confirmation /\ bcast'.awaiting_confirmation)
            => bcast'.message_content = bcast.message_content]_vars

====
